---- MODULE Spec2Model ----
(***************************************************************************)
(* N8 Poker Tool: the hand-log parser (ParseCommand), the hand finalizer   *)
(* and the duplicate-aware persistence against the poker_hands table.      *)
(*                                                                         *)
(* Money is counted in thousandths of a dollar (1000 = $1.00), so that     *)
(* roundToDecimals, which rounds to cents, is not the identity.  A line of *)
(* a log file is a record naming which branch of the parser's if-chain the *)
(* line's text selects (k) together with what the regular expressions of   *)
(* that branch capture from it.                                            *)
(*                                                                         *)
(* A hand carries the fields the parser computes from the lines after the  *)
(* header: actions, investments, community cards, pot, rake, jackpot,      *)
(* collected amount, result, stage and position.  The header's blinds and  *)
(* timestamp, the table name, the hole cards and the chip counts are       *)
(* copied through by the code unchanged and are left out.                  *)
(***************************************************************************)
EXTENDS Integers, Sequences, FiniteSets, TLC

VARIABLES
    \* ---- one hand under parseCompleteHand (parse-command.ts 724-795)
    hand,               \* the PartialParsedHand being filled
    heroSeatNumber,     \* number | null
    buttonSeatNumber,   \* number | null
    currentSection,     \* HandSectionType
    hpc,                \* "scan" | "summary" | "done" | "between" (no hand under parse)
    nLines,             \* lines of the hand consumed so far
    final,              \* <<>> or <<the ParsedHand finalizeHand returned>>
    \* ---- ingestion (parseHandLogFile / saveHandToDatabase) and the store
    file,               \* file[p]: the lines process p reads
    pc,                 \* pc[p]: "idle" | "scan" | "save" | "insert" | "done" | "error"
    idx,                \* idx[p]: the scan's index i (1-based)
    hands,              \* hands[p]: hands collected for saving
    skippedHands,       \* skippedHands[p]
    saved,              \* saved[p]: number of hands of hands[p] passed through saveHandToDatabase
    handsParsed,        \* handsParsed[p]: the count the run reports (-1 before it returns)
    totalProfit,        \* totalProfit[p]
    inserted,           \* inserted[p]: rows process p's inserts added, in order
    raised,             \* raised[p]: the causes of the errors the store's insert raised to p
    failure,            \* failure[p]: what p raised: "" | "invalid_id" | "lookup" | "insert"
    store,              \* the poker_hands table: a sequence of rows
    storeAfterFirst,    \* snapshot of the table when the first run returned or raised
    concurrent,         \* TRUE: the processes interleave; FALSE: run 2 follows run 1
    faulty,             \* TRUE: the store may raise a non-constraint error
    \* ---- position resolution as a pure function
    posHero, posButton, posResult,
    \* ---- the trend series (ChartCalculator, ChartCommand.calculateChartData)
    chartHands,         \* the hands handed to the calculator, in query order
    optInterval,        \* options.interval (0: not given)
    cpc,                \* "idle" | "profit" | "bb100" | "stats" | "done"
    index,              \* forEach index of the next hand (0-based)
    cumulativeStats,
    cumulativeBigBlinds,
    intervalAccumulator,
    profitData,         \* ProfitChartData
    bb100Data,          \* BB100ChartData
    finalStatistics,    \* <<>> or <<the FinalStatistics>>
    \* ---- the tables (ChartCalculator, second ChartCommand.execute)
    tableHands,         \* the hands handed to the calculator
    tpc,                \* "idle" | "street" | "action" | "done"
    streetProfitData,   \* <<>> or <<the CompleteStreetProfitChartData>>
    actionAnalysisData, \* <<>> or <<the CompleteActionAnalysisChartData>>
    \* ---- the chart command (ChartCommand.execute over the store)
    dateRange,          \* options.dateRange: <<>> or <<[start, end]>>
    xpc,                \* "idle" | "connect" | "fetch" | "calculate" | "street" |
                        \* "combined" | "statistics" | "done" | "failed"
    queryRows,          \* the hands getHandsData returned
    chartFiles          \* the chart files written to the output directory

handVars == <<hand, heroSeatNumber, buttonSeatNumber, currentSection, hpc, nLines,
              final>>
ingestVars == <<file, pc, idx, hands, skippedHands, saved, handsParsed, totalProfit,
                inserted, raised, failure, store, storeAfterFirst, concurrent,
                faulty>>
posVars == <<posHero, posButton, posResult>>
seriesVars == <<chartHands, optInterval, cpc, index, cumulativeStats,
                cumulativeBigBlinds, intervalAccumulator, profitData, bb100Data,
                finalStatistics>>
tableVars == <<tableHands, tpc, streetProfitData, actionAnalysisData>>
commandVars == <<dateRange, xpc, queryRows, chartFiles>>
chartVars == <<seriesVars, tableVars, commandVars>>
vars == <<handVars, ingestVars, posVars, chartVars>>

(***************************************************************************)
(* Bounds of the model                                                     *)
(***************************************************************************)
MaxHandLines == 4       \* lines of one hand fed to parseCompleteHand
MaxFileLines == 3       \* lines of a log file under sequential ingestion
MaxRaceLines == 2       \* lines of each log file under interleaved ingestion
MaxSeat == 7            \* seat numbers 0..MaxSeat are tried by the position resolver
MaxChartHands == 4      \* hands handed to the trend series
MaxInterval == 3        \* sampling intervals 1..MaxInterval (0: option not given)
MaxTableHands == 2      \* hands of a mixed list handed to the tables
MaxSample == 14         \* hands of one bucket of the action table
MaxStoredHands == 2     \* rows of the table the chart command reads
MaxScanLines == 4       \* lines of a log file under the scan alone
MaxParseLines == 3      \* lines after the first header of a file parsed line by line

(***************************************************************************)
(* Program constants                                                       *)
(***************************************************************************)
POSITION_COUNT == 6
DECIMAL_PRECISION == 2
\* null / "the pattern did not match"
Null == 0 - 1

SHOWDOWN_WIN == "showdown_win"
SHOWDOWN_LOSS == "showdown_loss"
NO_SHOWDOWN_WIN == "no_showdown_win"
NO_SHOWDOWN_LOSS == "no_showdown_loss"

(***************************************************************************)
(* utils: roundToDecimals, calculateRelativePosition, isValidHandId        *)
(***************************************************************************)
Pow10(d) == IF d = 0 THEN 1 ELSE IF d = 1 THEN 10 ELSE IF d = 2 THEN 100 ELSE 1000

\* Math.round(num * 10^decimals) / 10^decimals; Math.round rounds halves up.
roundToDecimals(num) ==
    LET unit == 1000 \div Pow10(DECIMAL_PRECISION)
    IN  unit * ((2 * num + unit) \div (2 * unit))

\* JavaScript's %: the remainder takes the sign of the dividend.
JsRem(a, b) == IF a >= 0 THEN a % b ELSE 0 - ((0 - a) % b)

\* variant: the table size is not added before the remainder is taken
calculateRelativePosition_noWrap(seatNumber, buttonSeat) ==
    JsRem(seatNumber - buttonSeat, POSITION_COUNT)

calculateRelativePosition(seatNumber, buttonSeat) ==
    JsRem(seatNumber - buttonSeat + POSITION_COUNT, POSITION_COUNT)

\* variant: the id is not trimmed before its length is tested
isValidHandId_noTrim(handId) == handId # ""

\* handId && handId.trim().length > 0
isValidHandId(handId) == handId \notin {"", " "}

(***************************************************************************)
(* Lines                                                                   *)
(***************************************************************************)
Line(k) == [k |-> k, id |-> "", n |-> Null, words |-> {}, amt |-> Null,
            amt2 |-> Null, amt3 |-> Null, groups |-> <<>>, showed |-> FALSE]

Header(id) == [Line("header") EXCEPT !.id = id]
BadHeader == Line("badheader")
Table(n) == [Line("table") EXCEPT !.n = n]
Seat(n) == [Line("seat") EXCEPT !.n = n]
Street(k, groups) == [Line(k) EXCEPT !.groups = groups]
Hero(words, amt) == [Line("hero") EXCEPT !.words = words, !.amt = amt]
Uncalled(amt) == [Line("uncalled") EXCEPT !.amt = amt]
Summary == Line("summary")
TotalPot(pot, rake, jackpot) ==
    [Line("totalpot") EXCEPT !.amt = pot, !.amt2 = rake, !.amt3 = jackpot]
Result(n, showed, won, collected) ==
    [Line("result") EXCEPT !.n = n, !.showed = showed, !.amt = won, !.amt2 = collected]
Other == Line("other")

\* lines[i].startsWith('Poker Hand #')
StartsHand(line) == line.k \in {"header", "badheader"}

(***************************************************************************)
(* parseCompleteHand, one line at a time                                   *)
(***************************************************************************)
\* parseHandHeader plus the defaults of parseCompleteHand
NewHand(id) ==
    [handId |-> id,
     heroActions |-> [s \in {"preflop", "flop", "turn", "river"} |-> <<>>],
     heroInvestments |-> [s \in {"preflop", "flop", "turn", "river"} |-> 0],
     flopCards |-> <<>>, turnCard |-> <<>>, riverCard |-> <<>>,
     heroRake |-> 0, potAmount |-> 0, jackpotAmount |-> 0,
     heroProfit |-> 0, handResult |-> ""]

NewState(id) ==
    [hand |-> NewHand(id), heroSeatNumber |-> Null, buttonSeatNumber |-> Null,
     currentSection |-> "preflop"]

\* cards[j] || '' on the cards of one bracket group (j is 0-based in the code)
CardAt(group, j) == IF j + 1 <= Len(group) THEN <<group[j + 1]>> ELSE <<>>

parseStreetTransition(h, line) ==
    IF line.k = "flop"
    THEN IF Len(line.groups) > 0 THEN [h EXCEPT !.flopCards = line.groups[1]] ELSE h
    ELSE IF line.k = "turn"
    THEN IF Len(line.groups) >= 2 THEN [h EXCEPT !.turnCard = line.groups[2]]
         ELSE IF Len(line.groups) = 1
              THEN [h EXCEPT !.turnCard = CardAt(line.groups[1], 3)]
              ELSE h
    ELSE IF Len(line.groups) >= 2 THEN [h EXCEPT !.riverCard = line.groups[2]]
         ELSE IF Len(line.groups) = 1
              THEN [h EXCEPT !.riverCard = CardAt(line.groups[1], 4)]
              ELSE h

\* the section parseStreetTransition returns
StreetOf(line) == line.k

parseBlindAction(h, line) ==
    IF line.amt # Null
    THEN [h EXCEPT !.heroInvestments["preflop"] = roundToDecimals(line.amt)]
    ELSE h

IsBlind(line) ==
    "posts small blind" \in line.words \/ "posts big blind" \in line.words

updateInvestment(h, line, section) ==
    IF line.amt # Null
    THEN [h EXCEPT !.heroInvestments[section] =
                        roundToDecimals(h.heroInvestments[section] + line.amt)]
    ELSE h

\* variant: the raise is added to what the street holds
updateRaiseInvestment_additive(h, line, section) ==
    IF line.amt # Null
    THEN [h EXCEPT !.heroInvestments[section] =
                        roundToDecimals(h.heroInvestments[section] + line.amt)]
    ELSE h

updateRaiseInvestment(h, line, section) ==
    IF line.amt # Null
    THEN [h EXCEPT !.heroInvestments[section] = roundToDecimals(line.amt)]
    ELSE h

Push(h, section, code) ==
    [h EXCEPT !.heroActions[section] = Append(h.heroActions[section], code)]

\* variant: a line with bets is a bet whether or not it has raises
parseHeroAction_betsFirst(h, line, section) ==
    IF IsBlind(line) THEN parseBlindAction(h, line)
    ELSE IF "folds" \in line.words THEN Push(h, section, "F")
    ELSE IF "checks" \in line.words THEN Push(h, section, "X")
    ELSE IF "calls" \in line.words
         THEN updateInvestment(Push(h, section, "C"), line, section)
    ELSE IF "bets" \in line.words
         THEN updateInvestment(Push(h, section, "B"), line, section)
    ELSE IF "raises" \in line.words
         THEN updateRaiseInvestment(Push(h, section, "R"), line, section)
    ELSE h

parseHeroAction(h, line, section) ==
    IF IsBlind(line) THEN parseBlindAction(h, line)
    ELSE IF "folds" \in line.words THEN Push(h, section, "F")
    ELSE IF "checks" \in line.words THEN Push(h, section, "X")
    ELSE IF "calls" \in line.words
         THEN updateInvestment(Push(h, section, "C"), line, section)
    ELSE IF "bets" \in line.words /\ "raises" \notin line.words
         THEN updateInvestment(Push(h, section, "B"), line, section)
    ELSE IF "raises" \in line.words
         THEN updateRaiseInvestment(Push(h, section, "R"), line, section)
    ELSE h

parseUncalledBet(h, line, section) ==
    IF line.amt # Null
    THEN [h EXCEPT !.heroInvestments[section] =
                        roundToDecimals(h.heroInvestments[section] - line.amt)]
    ELSE h

\* One iteration of the while loop of parseCompleteHand on a line that neither
\* starts a hand nor opens the summary.
ScanLine(st, line) ==
    IF line.k = "table" THEN [st EXCEPT !.buttonSeatNumber = line.n]
    ELSE IF line.k = "seat" THEN [st EXCEPT !.heroSeatNumber = line.n]
    \* a summary-style hero line starts with 'Seat ' and includes 'Hero' but
    \* does not match HERO_SEAT: parseHeroSeat returns null
    ELSE IF line.k = "result" THEN [st EXCEPT !.heroSeatNumber = Null]
    ELSE IF line.k \in {"flop", "turn", "river"}
         THEN [st EXCEPT !.hand = parseStreetTransition(st.hand, line),
                         !.currentSection = StreetOf(line)]
    ELSE IF line.k = "hero"
         THEN [st EXCEPT !.hand = parseHeroAction(st.hand, line, st.currentSection)]
    ELSE IF line.k = "uncalled"
         THEN [st EXCEPT !.hand = parseUncalledBet(st.hand, line, st.currentSection)]
    ELSE st

parsePotInformation(h, line) ==
    LET h1 == IF line.amt # Null THEN [h EXCEPT !.potAmount = line.amt] ELSE h
        h2 == IF line.amt2 # Null THEN [h1 EXCEPT !.heroRake = line.amt2] ELSE h1
    IN  IF line.amt3 # Null THEN [h2 EXCEPT !.jackpotAmount = line.amt3] ELSE h2

parseHeroResult(h, line) ==
    LET h1 == IF line.k = "result" /\ line.amt # Null
                 THEN [h EXCEPT !.heroProfit = line.amt]
              ELSE IF line.k = "result" /\ line.amt2 # Null
                 THEN [h EXCEPT !.heroProfit = line.amt2]
              ELSE h
    IN  IF line.k = "result" /\ line.showed
        THEN [h1 EXCEPT !.handResult =
                  IF h1.heroProfit > 0 THEN SHOWDOWN_WIN ELSE SHOWDOWN_LOSS]
        ELSE [h1 EXCEPT !.handResult =
                  IF h1.heroProfit > 0 THEN NO_SHOWDOWN_WIN ELSE NO_SHOWDOWN_LOSS]

\* line.includes(`Seat ${heroSeatNumber}: Hero`) && heroSeatNumber
IsHeroSummaryLine(line, seat) ==
    line.k \in {"seat", "result"} /\ line.n = seat /\ seat # Null /\ seat # 0

\* One iteration of the while loop of parseSummarySection.
SummaryLine(st, line) ==
    LET h1 == IF line.k = "totalpot" THEN parsePotInformation(st.hand, line)
              ELSE st.hand
    IN  IF IsHeroSummaryLine(line, st.heroSeatNumber)
        THEN [st EXCEPT !.hand = parseHeroResult(h1, line)]
        ELSE [st EXCEPT !.hand = h1]

(***************************************************************************)
(* finalizeHand                                                            *)
(***************************************************************************)
\* variant: the community cards are looked at before the hand result
determineFinalStage_cardsFirst(h) ==
    IF h.riverCard # <<>> THEN "river"
    ELSE IF h.turnCard # <<>> THEN "turn"
    ELSE IF h.flopCards # <<>> THEN "flop"
    ELSE IF h.handResult = SHOWDOWN_WIN \/ h.handResult = SHOWDOWN_LOSS THEN "showdown"
    ELSE "preflop"

determineFinalStage(h) ==
    IF h.handResult = SHOWDOWN_WIN \/ h.handResult = SHOWDOWN_LOSS THEN "showdown"
    ELSE IF h.riverCard # <<>> THEN "river"
    ELSE IF h.turnCard # <<>> THEN "turn"
    ELSE IF h.flopCards # <<>> THEN "flop"
    ELSE "preflop"

positions == <<"BTN", "SB", "BB", "UTG", "HJ", "CO">>

determineHeroPosition(heroSeat, buttonSeat) ==
    IF heroSeat = Null \/ heroSeat = 0 \/ buttonSeat = Null \/ buttonSeat = 0
    THEN "BTN"
    ELSE LET relativePosition == calculateRelativePosition(heroSeat, buttonSeat)
         IN  IF relativePosition >= 0 /\ relativePosition < Len(positions)
             THEN positions[relativePosition + 1]
             ELSE "BTN"

TotalInvestment(h) ==
    roundToDecimals(h.heroInvestments["preflop"] + h.heroInvestments["flop"]
                    + h.heroInvestments["turn"] + h.heroInvestments["river"])

\* variant: the collected amount is reported without the investment taken off
FinalProfit_gross(h) ==
    IF h.heroProfit > 0
    THEN roundToDecimals(h.heroProfit)
    ELSE roundToDecimals(0 - TotalInvestment(h))

FinalProfit(h) ==
    IF h.heroProfit > 0
    THEN roundToDecimals(h.heroProfit - TotalInvestment(h))
    ELSE roundToDecimals(0 - TotalInvestment(h))

\* variant: a hand without a result keeps none
finalizeHand_resultKept(h, heroSeat, buttonSeat) ==
    [handId |-> h.handId,
     heroPosition |-> determineHeroPosition(heroSeat, buttonSeat),
     flopCards |-> h.flopCards, turnCard |-> h.turnCard, riverCard |-> h.riverCard,
     potAmount |-> roundToDecimals(h.potAmount),
     jackpotAmount |-> roundToDecimals(h.jackpotAmount),
     heroProfit |-> FinalProfit(h),
     heroRake |-> roundToDecimals(h.heroRake),
     finalStage |-> determineFinalStage(h),
     handResult |-> h.handResult,
     heroActions |-> h.heroActions,
     heroInvestments |->
         [s \in {"preflop", "flop", "turn", "river"} |->
              roundToDecimals(h.heroInvestments[s])]]

finalizeHand(h, heroSeat, buttonSeat) ==
    [handId |-> h.handId,
     heroPosition |-> determineHeroPosition(heroSeat, buttonSeat),
     flopCards |-> h.flopCards, turnCard |-> h.turnCard, riverCard |-> h.riverCard,
     potAmount |-> roundToDecimals(h.potAmount),
     jackpotAmount |-> roundToDecimals(h.jackpotAmount),
     heroProfit |-> FinalProfit(h),
     heroRake |-> roundToDecimals(h.heroRake),
     finalStage |-> determineFinalStage(h),
     handResult |-> IF h.handResult = "" THEN NO_SHOWDOWN_LOSS ELSE h.handResult,
     heroActions |-> h.heroActions,
     heroInvestments |->
         [s \in {"preflop", "flop", "turn", "river"} |->
              roundToDecimals(h.heroInvestments[s])]]

(***************************************************************************)
(* parseCompleteHand as a function of the file's lines (1-based indices)   *)
(***************************************************************************)
RECURSIVE SummaryFrom(_, _, _)
\* parseSummarySection: consumes lines up to the next hand or the end
SummaryFrom(lines, i, st) ==
    IF i > Len(lines) \/ StartsHand(lines[i]) THEN [st |-> st, nextIndex |-> i]
    ELSE SummaryFrom(lines, i + 1, SummaryLine(st, lines[i]))

RECURSIVE ScanFrom(_, _, _)
ScanFrom(lines, i, st) ==
    IF i > Len(lines) \/ StartsHand(lines[i]) THEN [st |-> st, nextIndex |-> i]
    ELSE IF lines[i].k = "summary" THEN SummaryFrom(lines, i + 1, st)
    ELSE ScanFrom(lines, i + 1, ScanLine(st, lines[i]))

\* variant: the index parseSummarySection returns is dropped, the scan stops at
\* the summary marker
parseCompleteHand_summaryNotConsumed(lines, startIndex) ==
    IF lines[startIndex].k # "header" THEN <<>>
    ELSE LET r == ScanFrom(lines, startIndex + 1, NewState(lines[startIndex].id))
             marks == {k \in startIndex + 1 .. r.nextIndex - 1 : lines[k].k = "summary"}
         IN  <<[hand |-> finalizeHand(r.st.hand, r.st.heroSeatNumber,
                                      r.st.buttonSeatNumber),
                nextIndex |-> IF marks = {} THEN r.nextIndex
                              ELSE CHOOSE k \in marks : \A m \in marks : k <= m]>>

\* variant: currentSection is kept from the lines before the header
parseCompleteHand_sectionCarried(lines, startIndex) ==
    IF lines[startIndex].k # "header" THEN <<>>
    ELSE LET streets == {k \in 1 .. startIndex - 1 :
                             lines[k].k \in {"flop", "turn", "river"}}
             section == IF streets = {} THEN "preflop"
                        ELSE lines[CHOOSE k \in streets : \A m \in streets : m <= k].k
             r == ScanFrom(lines, startIndex + 1,
                           [NewState(lines[startIndex].id) EXCEPT
                                !.currentSection = section])
         IN  <<[hand |-> finalizeHand(r.st.hand, r.st.heroSeatNumber,
                                      r.st.buttonSeatNumber),
                nextIndex |-> r.nextIndex]>>

\* <<>> for null, else <<[hand, nextIndex]>>
parseCompleteHand(lines, startIndex) ==
    IF lines[startIndex].k # "header" THEN <<>>
    ELSE LET r == ScanFrom(lines, startIndex + 1, NewState(lines[startIndex].id))
         IN  <<[hand |-> finalizeHand(r.st.hand, r.st.heroSeatNumber,
                                      r.st.buttonSeatNumber),
                nextIndex |-> r.nextIndex]>>

(***************************************************************************)
(* One hand, line by line: the inputs of the scan                          *)
(***************************************************************************)
Flop3 == <<"Ah", "Kd", "2c">>
Board4 == <<"Ah", "Kd", "2c", "7s">>

ScanLines ==
    {Table(3), Table(Null), Seat(3), Seat(Null), Result(3, FALSE, Null, Null),
     Street("flop", <<Flop3>>), Street("flop", <<>>),
     Street("turn", <<Flop3, <<"7s">>>>), Street("turn", <<Board4>>),
     Street("turn", <<Flop3>>),
     Street("river", <<Board4, <<"9h">>>>),
     Hero({"folds"}, Null), Hero({"checks"}, Null),
     Hero({"calls"}, 2000), Hero({"calls"}, 1500), Hero({"bets"}, 1005),
     Hero({"raises"}, 2000), Hero({"bets", "raises"}, Null),
     Hero({"posts big blind"}, 100), Hero({}, Null),
     Uncalled(1500), Other}

SummaryLines ==
    {TotalPot(5250, 250, Null), TotalPot(Null, Null, Null),
     Result(3, TRUE, 5000, Null), Result(3, FALSE, Null, 1000),
     Result(3, TRUE, Null, Null), Result(3, FALSE, 0, Null),
     Result(4, TRUE, 5000, Null), Seat(3), Other}

ParseState ==
    [hand |-> hand, heroSeatNumber |-> heroSeatNumber,
     buttonSeatNumber |-> buttonSeatNumber, currentSection |-> currentSection]

SetParseState(st) ==
    /\ hand' = st.hand
    /\ heroSeatNumber' = st.heroSeatNumber
    /\ buttonSeatNumber' = st.buttonSeatNumber
    /\ currentSection' = st.currentSection

HandInit ==
    /\ hand = NewHand("a")
    /\ heroSeatNumber = Null
    /\ buttonSeatNumber = Null
    /\ currentSection = "preflop"
    /\ hpc = "scan"
    /\ nLines = 0
    /\ final = <<>>

\* a line of the hand before its summary, other than the summary marker
ParseHandLine ==
    /\ hpc = "scan"
    /\ nLines < MaxHandLines
    /\ \E line \in ScanLines : SetParseState(ScanLine(ParseState, line))
    /\ nLines' = nLines + 1
    /\ UNCHANGED <<hpc, final>>

\* the '*** SUMMARY ***' line: parseSummarySection takes over
EnterSummary ==
    /\ hpc = "scan"
    /\ nLines < MaxHandLines
    /\ hpc' = "summary"
    /\ nLines' = nLines + 1
    /\ UNCHANGED <<hand, heroSeatNumber, buttonSeatNumber, currentSection, final>>

ParseSummaryLine ==
    /\ hpc = "summary"
    /\ nLines < MaxHandLines
    /\ \E line \in SummaryLines : SetParseState(SummaryLine(ParseState, line))
    /\ nLines' = nLines + 1
    /\ UNCHANGED <<hpc, final>>

\* the next hand's header or the end of the file: the loop ends, finalizeHand runs
FinalizeHand ==
    /\ hpc \in {"scan", "summary"}
    /\ final' = <<finalizeHand(hand, heroSeatNumber, buttonSeatNumber)>>
    /\ hpc' = "done"
    /\ UNCHANGED <<hand, heroSeatNumber, buttonSeatNumber, currentSection, nLines>>

(***************************************************************************)
(* Position resolution on its own                                          *)
(***************************************************************************)
SeatInputs == {Null} \cup (0 .. MaxSeat)

PosInit ==
    /\ posHero = Null
    /\ posButton = Null
    /\ posResult = ""

ResolvePosition ==
    /\ posResult = ""
    /\ posResult' = determineHeroPosition(posHero, posButton)
    /\ UNCHANGED <<posHero, posButton>>

(***************************************************************************)
(* The parts of the state a specification leaves alone                     *)
(***************************************************************************)
Procs == {1, 2}

IngestRunsIdle ==
    /\ file = [p \in Procs |-> <<>>]
    /\ pc = [p \in Procs |-> "idle"]
    /\ idx = [p \in Procs |-> 1]
    /\ hands = [p \in Procs |-> <<>>]
    /\ skippedHands = [p \in Procs |-> 0]
    /\ saved = [p \in Procs |-> 0]
    /\ handsParsed = [p \in Procs |-> Null]
    /\ totalProfit = [p \in Procs |-> 0]
    /\ inserted = [p \in Procs |-> <<>>]
    /\ raised = [p \in Procs |-> <<>>]
    /\ failure = [p \in Procs |-> ""]
    /\ storeAfterFirst = <<>>
    /\ concurrent = FALSE
    /\ faulty = FALSE

IngestIdle == IngestRunsIdle /\ store = <<>>

SeriesIdle ==
    /\ chartHands = <<>>
    /\ optInterval = 0
    /\ cpc = "idle"
    /\ index = 0
    /\ cumulativeStats = <<>>
    /\ cumulativeBigBlinds = <<>>
    /\ intervalAccumulator = <<>>
    /\ profitData = <<>>
    /\ bb100Data = <<>>
    /\ finalStatistics = <<>>

TablesIdle ==
    /\ tableHands = <<>>
    /\ tpc = "idle"
    /\ streetProfitData = <<>>
    /\ actionAnalysisData = <<>>

CommandIdle ==
    /\ dateRange = <<>>
    /\ xpc = "idle"
    /\ queryRows = <<>>
    /\ chartFiles = {}

ChartIdle == SeriesIdle /\ TablesIdle /\ CommandIdle

(***************************************************************************)
(* SpecHand: parseCompleteHand over every sequence of lines                *)
(***************************************************************************)
InitHand == HandInit /\ IngestIdle /\ PosInit /\ ChartIdle

NextHand ==
    \/ ParseHandLine /\ UNCHANGED <<ingestVars, posVars, chartVars>>
    \/ EnterSummary /\ UNCHANGED <<ingestVars, posVars, chartVars>>
    \/ ParseSummaryLine /\ UNCHANGED <<ingestVars, posVars, chartVars>>
    \/ FinalizeHand /\ UNCHANGED <<ingestVars, posVars, chartVars>>

SpecHand == InitHand /\ [][NextHand]_vars

(***************************************************************************)
(* SpecPosition: determineHeroPosition over every pair of seats            *)
(***************************************************************************)
InitPosition ==
    /\ HandInit
    /\ IngestIdle
    /\ ChartIdle
    /\ posHero \in SeatInputs
    /\ posButton \in SeatInputs
    /\ posResult = ""

NextPosition == ResolvePosition /\ UNCHANGED <<handVars, ingestVars, chartVars>>

SpecPosition == InitPosition /\ [][NextPosition]_vars

(***************************************************************************)
(* The store: SqliteManager over the poker_hands table                     *)
(***************************************************************************)
UNIQUE_FAILED == "UNIQUE constraint failed"
IO_FAILED == "SQLITE_IOERR"

\* createError(operation, originalError): `${operation}: ${message}`
createError(operation, cause) == [operation |-> operation, cause |-> cause]

\* variant: the message is tested at its start, where createError put the operation
isUniqueConstraintError_startsWith(error) == error.operation = UNIQUE_FAILED

\* variant: every error of the insert is taken for a duplicate
isUniqueConstraintError_any(error) == TRUE

\* error.message.includes('UNIQUE constraint failed')
isUniqueConstraintError(error) == error.cause = UNIQUE_FAILED

\* variant: the lookup never finds a row
getPokerHandById_none(table, handId) == <<>>

\* SELECT * FROM poker_hands WHERE hand_id = ?  (<<>> for null)
getPokerHandById(table, handId) ==
    LET hits == {j \in 1 .. Len(table) : table[j].hand_id = handId}
    IN  IF hits = {} THEN <<>>
        ELSE <<table[CHOOSE j \in hits : \A m \in hits : j <= m]>>

\* variant: INSERT OR REPLACE, the row of the same hand_id is replaced
insertPokerHand_replace(table, row) ==
    [table |-> Append(SelectSeq(table, LAMBDA r : r.hand_id # row.hand_id), row),
     error |-> <<>>]

\* INSERT INTO poker_hands ...: hand_id TEXT UNIQUE NOT NULL is enforced by the
\* table itself.  The result is the new table and the error, <<>> when none.
insertPokerHand(table, row) ==
    IF \E j \in 1 .. Len(table) : table[j].hand_id = row.hand_id
    THEN [table |-> table,
          error |-> <<createError("Failed to insert poker hand", UNIQUE_FAILED)>>]
    ELSE [table |-> Append(table, row), error |-> <<>>]

\* the DatabaseInsertHand saveHandToDatabase builds
dbHand(h) ==
    [hand_id |-> h.handId,
     hero_position |-> h.heroPosition,
     flop_cards |-> h.flopCards, turn_card |-> h.turnCard, river_card |-> h.riverCard,
     hero_preflop_investment |-> h.heroInvestments["preflop"],
     hero_flop_investment |-> h.heroInvestments["flop"],
     hero_turn_investment |-> h.heroInvestments["turn"],
     hero_river_investment |-> h.heroInvestments["river"],
     hero_preflop_actions |-> h.heroActions["preflop"],
     hero_flop_actions |-> h.heroActions["flop"],
     hero_turn_actions |-> h.heroActions["turn"],
     hero_river_actions |-> h.heroActions["river"],
     pot_amount |-> h.potAmount, jackpot_amount |-> h.jackpotAmount,
     hero_profit |-> h.heroProfit, hero_rake |-> h.heroRake,
     hero_hand_result |-> h.handResult, final_stage |-> h.finalStage]

(***************************************************************************)
(* parseHandLogFile and saveHandToDatabase, one store call per step        *)
(***************************************************************************)
RECURSIVE NextHandIndex(_, _)
\* the while loop's i++ over lines that do not start a hand
NextHandIndex(lines, i) ==
    IF i > Len(lines) \/ StartsHand(lines[i]) THEN i
    ELSE NextHandIndex(lines, i + 1)

\* the processes the event loop may run: every one when they interleave,
\* else the second run only after the first has returned or raised
Runs(p) ==
    /\ pc[p] \in {"scan", "save", "insert"}
    /\ concurrent \/ p = 1 \/ pc[1] \in {"done", "error"}

Ends(p) ==
    storeAfterFirst' = IF p = 1 THEN store ELSE storeAfterFirst

Raise(p, why) ==
    /\ pc' = [pc EXCEPT ![p] = "error"]
    /\ failure' = [failure EXCEPT ![p] = why]
    /\ Ends(p)

\* a line starting with 'Poker Hand #' that parseHandHeader rejects: i++
ScanBadHeader(p) ==
    LET j == NextHandIndex(file[p], idx[p])
    IN  /\ Runs(p) /\ pc[p] = "scan"
        /\ j <= Len(file[p])
        /\ parseCompleteHand(file[p], j) = <<>>
        /\ idx' = [idx EXCEPT ![p] = j + 1]
        /\ UNCHANGED <<file, pc, hands, skippedHands, saved, handsParsed, totalProfit,
                       inserted, raised, failure, store, storeAfterFirst,
                       concurrent, faulty>>

\* a hand is parsed and looked up: skipped when stored, else collected
ScanHand(p) ==
    LET j == NextHandIndex(file[p], idx[p])
        result == parseCompleteHand(file[p], j)
    IN  /\ Runs(p) /\ pc[p] = "scan"
        /\ j <= Len(file[p])
        /\ result # <<>>
        /\ IF getPokerHandById(store, result[1].hand.handId) # <<>>
           THEN /\ skippedHands' = [skippedHands EXCEPT ![p] = @ + 1]
                /\ hands' = hands
           ELSE /\ hands' = [hands EXCEPT ![p] = Append(@, result[1].hand)]
                /\ skippedHands' = skippedHands
        /\ idx' = [idx EXCEPT ![p] = result[1].nextIndex]
        /\ UNCHANGED <<file, pc, saved, handsParsed, totalProfit, inserted,
                       raised, failure, store, storeAfterFirst, concurrent,
                       faulty>>

\* the lookup of the scan is rejected by the store
ScanLookupFails(p) ==
    LET j == NextHandIndex(file[p], idx[p])
    IN  /\ Runs(p) /\ pc[p] = "scan"
        /\ faulty
        /\ j <= Len(file[p])
        /\ parseCompleteHand(file[p], j) # <<>>
        /\ Raise(p, "lookup")
        /\ UNCHANGED <<file, idx, hands, skippedHands, saved, handsParsed,
                       totalProfit, inserted, raised, store, concurrent, faulty>>

\* the scan reached lines.length: the save loop starts
ScanEnd(p) ==
    /\ Runs(p) /\ pc[p] = "scan"
    /\ NextHandIndex(file[p], idx[p]) > Len(file[p])
    /\ pc' = [pc EXCEPT ![p] = "save"]
    /\ idx' = [idx EXCEPT ![p] = Len(file[p]) + 1]
    /\ UNCHANGED <<file, hands, skippedHands, saved, handsParsed, totalProfit,
                   inserted, raised, failure, store, storeAfterFirst,
                   concurrent, faulty>>

\* the hand saveHandToDatabase is called on next
Current(p) == hands[p][saved[p] + 1]

\* saveHandToDatabase returned: totalProfit += hand.heroProfit
Saved(p) ==
    /\ saved' = [saved EXCEPT ![p] = @ + 1]
    /\ totalProfit' = [totalProfit EXCEPT ![p] = @ + Current(p).heroProfit]

\* saveHandToDatabase: throw createError('Invalid hand ID', ...)
SaveInvalid(p) ==
    /\ Runs(p) /\ pc[p] = "save"
    /\ saved[p] < Len(hands[p])
    /\ ~isValidHandId(Current(p).handId)
    /\ Raise(p, "invalid_id")
    /\ UNCHANGED <<file, idx, hands, skippedHands, saved, handsParsed, totalProfit,
                   inserted, raised, store, concurrent, faulty>>

\* saveHandToDatabase: the double-check for duplicates
SaveLookup(p) ==
    /\ Runs(p) /\ pc[p] = "save"
    /\ saved[p] < Len(hands[p])
    /\ isValidHandId(Current(p).handId)
    /\ IF getPokerHandById(store, Current(p).handId) # <<>>
       THEN Saved(p) /\ pc' = pc
       ELSE pc' = [pc EXCEPT ![p] = "insert"] /\ UNCHANGED <<saved, totalProfit>>
    /\ UNCHANGED <<file, idx, hands, skippedHands, handsParsed, inserted,
                   raised, failure, store, storeAfterFirst, concurrent, faulty>>

SaveLookupFails(p) ==
    /\ Runs(p) /\ pc[p] = "save"
    /\ faulty
    /\ saved[p] < Len(hands[p])
    /\ isValidHandId(Current(p).handId)
    /\ Raise(p, "lookup")
    /\ UNCHANGED <<file, idx, hands, skippedHands, saved, handsParsed, totalProfit,
                   inserted, raised, store, concurrent, faulty>>

\* saveHandToDatabase: insertPokerHand and its catch
SaveInsert(p) ==
    LET r == insertPokerHand(store, dbHand(Current(p)))
    IN  /\ Runs(p) /\ pc[p] = "insert"
        /\ store' = r.table
        /\ IF r.error = <<>>
           THEN /\ inserted' = [inserted EXCEPT ![p] = Append(@, dbHand(Current(p)))]
                /\ Saved(p)
                /\ pc' = [pc EXCEPT ![p] = "save"]
                /\ UNCHANGED <<raised, failure, storeAfterFirst>>
           ELSE /\ raised' = [raised EXCEPT ![p] = Append(@, r.error[1].cause)]
                /\ inserted' = inserted
                /\ IF isUniqueConstraintError(r.error[1])
                   THEN /\ Saved(p)
                        /\ pc' = [pc EXCEPT ![p] = "save"]
                        /\ UNCHANGED <<failure, storeAfterFirst>>
                   ELSE /\ Raise(p, "insert")
                        /\ UNCHANGED <<saved, totalProfit>>
        /\ UNCHANGED <<file, idx, hands, skippedHands, handsParsed, concurrent,
                       faulty>>

\* the insert is rejected for a reason other than the constraint
SaveInsertFails(p) ==
    LET error == createError("Failed to insert poker hand", IO_FAILED)
    IN  /\ Runs(p) /\ pc[p] = "insert"
        /\ faulty
        /\ raised' = [raised EXCEPT ![p] = Append(@, error.cause)]
        /\ IF isUniqueConstraintError(error)
           THEN Saved(p) /\ pc' = [pc EXCEPT ![p] = "save"]
                /\ UNCHANGED <<failure, storeAfterFirst>>
           ELSE Raise(p, "insert") /\ UNCHANGED <<saved, totalProfit>>
        /\ UNCHANGED <<file, idx, hands, skippedHands, handsParsed, inserted,
                       store, concurrent, faulty>>

\* return { handsParsed: hands.length, profit: totalProfit }
Return(p) ==
    /\ Runs(p) /\ pc[p] = "save"
    /\ saved[p] = Len(hands[p])
    /\ pc' = [pc EXCEPT ![p] = "done"]
    /\ handsParsed' = [handsParsed EXCEPT ![p] = Len(hands[p])]
    /\ Ends(p)
    /\ UNCHANGED <<file, idx, hands, skippedHands, saved, totalProfit, inserted,
                   raised, failure, store, concurrent, faulty>>

(***************************************************************************)
(* Spec: two parse runs over log files, in sequence or interleaved         *)
(***************************************************************************)
FileLines ==
    {Header("a"), Header("b"), Header(" "), BadHeader, Hero({"calls"}, 2000), Other}

RaceLines == {Header("a"), Header("b"), Hero({"calls"}, 2000)}

Files(alphabet, n) == UNION {[1 .. m -> alphabet] : m \in 0 .. n}

Init ==
    /\ HandInit
    /\ PosInit
    /\ ChartIdle
    /\ \/ /\ concurrent = FALSE
          /\ faulty \in BOOLEAN
          /\ \E f \in Files(FileLines, MaxFileLines) : file = [p \in Procs |-> f]
       \/ /\ concurrent = TRUE
          /\ faulty = FALSE
          /\ file \in [Procs -> Files(RaceLines, MaxRaceLines)]
    /\ pc = [p \in Procs |-> "scan"]
    /\ idx = [p \in Procs |-> 1]
    /\ hands = [p \in Procs |-> <<>>]
    /\ skippedHands = [p \in Procs |-> 0]
    /\ saved = [p \in Procs |-> 0]
    /\ handsParsed = [p \in Procs |-> Null]
    /\ totalProfit = [p \in Procs |-> 0]
    /\ inserted = [p \in Procs |-> <<>>]
    /\ raised = [p \in Procs |-> <<>>]
    /\ failure = [p \in Procs |-> ""]
    /\ store = <<>>
    /\ storeAfterFirst = <<>>

Next ==
    \/ \E p \in Procs : ScanBadHeader(p) /\ UNCHANGED <<handVars, posVars, chartVars>>
    \/ \E p \in Procs : ScanHand(p) /\ UNCHANGED <<handVars, posVars, chartVars>>
    \/ \E p \in Procs : ScanLookupFails(p) /\ UNCHANGED <<handVars, posVars, chartVars>>
    \/ \E p \in Procs : ScanEnd(p) /\ UNCHANGED <<handVars, posVars, chartVars>>
    \/ \E p \in Procs : SaveInvalid(p) /\ UNCHANGED <<handVars, posVars, chartVars>>
    \/ \E p \in Procs : SaveLookup(p) /\ UNCHANGED <<handVars, posVars, chartVars>>
    \/ \E p \in Procs : SaveLookupFails(p) /\ UNCHANGED <<handVars, posVars, chartVars>>
    \/ \E p \in Procs : SaveInsert(p) /\ UNCHANGED <<handVars, posVars, chartVars>>
    \/ \E p \in Procs : SaveInsertFails(p) /\ UNCHANGED <<handVars, posVars, chartVars>>
    \/ \E p \in Procs : Return(p) /\ UNCHANGED <<handVars, posVars, chartVars>>

Spec == Init /\ [][Next]_vars

(***************************************************************************)
(* JavaScript numbers of the chart calculations                            *)
(*                                                                         *)
(* A number is <<n, d>>: the fraction n / d in lowest terms with d > 0, or *)
(* <<1, 0>> for Infinity, <<0 - 1, 0>> for -Infinity and <<0, 0>> for NaN. *)
(* Amounts are in dollars; the rounding error of floating point is left    *)
(* out.                                                                    *)
(***************************************************************************)
RECURSIVE GCD(_, _)
GCD(a, b) == IF b = 0 THEN a ELSE GCD(b, a % b)

Abs(a) == IF a < 0 THEN 0 - a ELSE a

Sign(a) == IF a > 0 THEN 1 ELSE IF a < 0 THEN 0 - 1 ELSE 0

Num(n, d) ==
    IF d = 0 THEN <<Sign(n), 0>>
    ELSE LET g == GCD(Abs(n), Abs(d))
         IN  <<(Sign(d) * n) \div g, Abs(d) \div g>>

Zero == <<0, 1>>
NaN == <<0, 0>>
IsFinite(x) == x[2] # 0
IsNaN(x) == x = NaN

\* a REAL column of the table (thousandths of a dollar in the store) read as a number
Dollars(mills) == Num(mills, 1000)

\* x + y
NumAdd(x, y) ==
    IF IsNaN(x) \/ IsNaN(y) THEN NaN
    ELSE IF ~IsFinite(x) /\ ~IsFinite(y) THEN (IF x = y THEN x ELSE NaN)
    ELSE IF ~IsFinite(x) THEN x
    ELSE IF ~IsFinite(y) THEN y
    ELSE Num(x[1] * y[2] + y[1] * x[2], x[2] * y[2])

\* x * y
NumMul(x, y) ==
    IF IsNaN(x) \/ IsNaN(y) THEN NaN
    ELSE IF ~IsFinite(x) \/ ~IsFinite(y) THEN <<Sign(x[1]) * Sign(y[1]), 0>>
    ELSE Num(x[1] * y[1], x[2] * y[2])

\* x / y: a zero divisor gives Infinity, -Infinity or NaN, never an exception
NumDiv(x, y) ==
    IF IsNaN(x) \/ IsNaN(y) THEN NaN
    ELSE IF ~IsFinite(x) /\ ~IsFinite(y) THEN NaN
    ELSE IF ~IsFinite(x) THEN <<x[1] * (IF y[1] < 0 THEN 0 - 1 ELSE 1), 0>>
    ELSE IF ~IsFinite(y) THEN Zero
    ELSE Num(x[1] * y[2], x[2] * y[1])

\* x > y (false when either side is NaN)
NumGt(x, y) ==
    IF IsNaN(x) \/ IsNaN(y) THEN FALSE
    ELSE IF ~IsFinite(x) /\ ~IsFinite(y) THEN x[1] > y[1]
    ELSE IF ~IsFinite(x) THEN x[1] > 0
    ELSE IF ~IsFinite(y) THEN y[1] < 0
    ELSE x[1] * y[2] > y[1] * x[2]

\* roundToDecimals(num, decimals) on a number: Math.round rounds halves up and
\* passes NaN and the infinities through
roundToDecimalsAt(x, decimals) ==
    IF ~IsFinite(x) THEN x
    ELSE LET m == Pow10(decimals)
         IN  Num((2 * x[1] * m + x[2]) \div (2 * x[2]), m)

isShowdownResult(handResult) ==
    handResult = "showdown_win" \/ handResult = "showdown_loss"

(***************************************************************************)
(* ChartCalculator: the profit and BB/100 trend series                     *)
(***************************************************************************)
DEFAULT_SAMPLING_INTERVAL == 1
DEFAULT_BB100_INTERVAL == 100

initializeCumulativeStats ==
    [allWithRake |-> Zero, allActual |-> Zero, showdown |-> Zero, noShowdown |-> Zero]

initializeIntervalAccumulator ==
    [allWithRake |-> Zero, allActual |-> Zero, showdown |-> Zero, noShowdown |-> Zero,
     count |-> 0]

initializeBB100Accumulator ==
    [bb100AllWithRake |-> Zero, bb100AllActual |-> Zero, bb100Showdown |-> Zero,
     bb100NoShowdown |-> Zero, count |-> 0]

\* variant: the rake is added back on every hand, won or lost
updateCumulativeStats_rakeAlways(stats, h) ==
    LET profit == Dollars(h.hero_profit)
        rake == Dollars(h.hero_rake)
    IN  [allWithRake |-> NumAdd(stats.allWithRake, NumAdd(profit, rake)),
         allActual |-> NumAdd(stats.allActual, profit),
         showdown |-> IF isShowdownResult(h.hero_hand_result)
                      THEN NumAdd(stats.showdown, profit) ELSE stats.showdown,
         noShowdown |-> IF isShowdownResult(h.hero_hand_result)
                        THEN stats.noShowdown ELSE NumAdd(stats.noShowdown, profit)]

\* variant: every hand is added to the non-showdown sum
updateCumulativeStats_noShowdownAlways(stats, h) ==
    LET profit == Dollars(h.hero_profit)
        rake == Dollars(h.hero_rake)
        adjustedRake == IF NumGt(profit, Zero) THEN rake ELSE Zero
    IN  [allWithRake |-> NumAdd(stats.allWithRake, NumAdd(profit, adjustedRake)),
         allActual |-> NumAdd(stats.allActual, profit),
         showdown |-> IF isShowdownResult(h.hero_hand_result)
                      THEN NumAdd(stats.showdown, profit) ELSE stats.showdown,
         noShowdown |-> NumAdd(stats.noShowdown, profit)]

updateCumulativeStats(stats, h) ==
    LET profit == Dollars(h.hero_profit)
        rake == Dollars(h.hero_rake)
        adjustedRake == IF NumGt(profit, Zero) THEN rake ELSE Zero
    IN  [allWithRake |-> NumAdd(stats.allWithRake, NumAdd(profit, adjustedRake)),
         allActual |-> NumAdd(stats.allActual, profit),
         showdown |-> IF isShowdownResult(h.hero_hand_result)
                      THEN NumAdd(stats.showdown, profit) ELSE stats.showdown,
         noShowdown |-> IF isShowdownResult(h.hero_hand_result)
                        THEN stats.noShowdown ELSE NumAdd(stats.noShowdown, profit)]

\* variant: the accumulator holds the running sums of the last hand only
accumulateIntervalData_lastOnly(accumulator, stats) ==
    [allWithRake |-> stats.allWithRake, allActual |-> stats.allActual,
     showdown |-> stats.showdown, noShowdown |-> stats.noShowdown,
     count |-> 1]

accumulateIntervalData(accumulator, stats) ==
    [allWithRake |-> NumAdd(accumulator.allWithRake, stats.allWithRake),
     allActual |-> NumAdd(accumulator.allActual, stats.allActual),
     showdown |-> NumAdd(accumulator.showdown, stats.showdown),
     noShowdown |-> NumAdd(accumulator.noShowdown, stats.noShowdown),
     count |-> accumulator.count + 1]

calculateCurrentBB100(stats, bigBlinds) ==
    IF ~NumGt(bigBlinds, Zero)
    THEN [allWithRake |-> Zero, allActual |-> Zero, showdown |-> Zero,
          noShowdown |-> Zero]
    ELSE [allWithRake |-> NumMul(NumDiv(stats.allWithRake, bigBlinds), <<100, 1>>),
          allActual |-> NumMul(NumDiv(stats.allActual, bigBlinds), <<100, 1>>),
          showdown |-> NumMul(NumDiv(stats.showdown, bigBlinds), <<100, 1>>),
          noShowdown |-> NumMul(NumDiv(stats.noShowdown, bigBlinds), <<100, 1>>)]

accumulateBB100Data(accumulator, currentBB100) ==
    [bb100AllWithRake |-> NumAdd(accumulator.bb100AllWithRake, currentBB100.allWithRake),
     bb100AllActual |-> NumAdd(accumulator.bb100AllActual, currentBB100.allActual),
     bb100Showdown |-> NumAdd(accumulator.bb100Showdown, currentBB100.showdown),
     bb100NoShowdown |-> NumAdd(accumulator.bb100NoShowdown, currentBB100.noShowdown),
     count |-> accumulator.count + 1]

\* variant: the last hand does not force a point
shouldCreateDataPoint_noFlush(handNumber, interval, i, totalHands) ==
    JsRem(handNumber, interval) = 0

shouldCreateDataPoint(handNumber, interval, i, totalHands) ==
    JsRem(handNumber, interval) = 0 \/ i = totalHands - 1

createDataPoint(handNumber, value, timestamp) ==
    [handNumber |-> handNumber,
     value |-> roundToDecimalsAt(value, DECIMAL_PRECISION),
     timestamp |-> timestamp]

EmptyProfitData ==
    [allHandsWithRake |-> <<>>, allHandsActual |-> <<>>, showdownOnly |-> <<>>,
     noShowdownOnly |-> <<>>]

EmptyBB100Data ==
    [allHandsWithRakeBB100 |-> <<>>, allHandsActualBB100 |-> <<>>,
     showdownOnlyBB100 |-> <<>>, noShowdownOnlyBB100 |-> <<>>]

addProfitDataPoints(result, accumulator, handNumber, timestamp) ==
    LET n == <<accumulator.count, 1>>
        pt(total) == createDataPoint(handNumber, NumDiv(total, n), timestamp)
    IN  [allHandsWithRake |-> Append(result.allHandsWithRake, pt(accumulator.allWithRake)),
         allHandsActual |-> Append(result.allHandsActual, pt(accumulator.allActual)),
         showdownOnly |-> Append(result.showdownOnly, pt(accumulator.showdown)),
         noShowdownOnly |-> Append(result.noShowdownOnly, pt(accumulator.noShowdown))]

addBB100DataPoints(result, accumulator, handNumber, timestamp) ==
    LET n == <<accumulator.count, 1>>
        pt(total) == createDataPoint(handNumber, NumDiv(total, n), timestamp)
    IN  [allHandsWithRakeBB100 |->
             Append(result.allHandsWithRakeBB100, pt(accumulator.bb100AllWithRake)),
         allHandsActualBB100 |->
             Append(result.allHandsActualBB100, pt(accumulator.bb100AllActual)),
         showdownOnlyBB100 |->
             Append(result.showdownOnlyBB100, pt(accumulator.bb100Showdown)),
         noShowdownOnlyBB100 |->
             Append(result.noShowdownOnlyBB100, pt(accumulator.bb100NoShowdown))]

\* this.options.interval || CHARTS.DEFAULT_SAMPLING_INTERVAL
Interval == IF optInterval = 0 THEN DEFAULT_SAMPLING_INTERVAL ELSE optInterval

\* variant: the BB/100 series falls back to the default of calculateBB100Data
bb100Interval_ownDefault ==
    IF optInterval = 0 THEN DEFAULT_BB100_INTERVAL ELSE optInterval

\* calculateChartData hands the same interval to calculateBB100Data
bb100Interval == Interval

\* profitData.xs[i]?.value || 0 (i is 0-based in the code)
ValueOrZero(points, i) ==
    IF i + 1 \in DOMAIN points /\ ~IsNaN(points[i + 1].value)
    THEN points[i + 1].value ELSE Zero

createEmptyStatistics ==
    [profitWithoutRake |-> Zero, actualProfit |-> Zero, rakeImpact |-> Zero,
     showdownProfit |-> Zero, noShowdownProfit |-> Zero, bb100WithoutRake |-> Zero,
     bb100Actual |-> Zero, bb100Showdown |-> Zero, bb100NoShowdown |-> Zero]

buildStatistics(profit, bb100, profitIndex, bb100Index) ==
    LET profitWithoutRake == ValueOrZero(profit.allHandsWithRake, profitIndex)
        actualProfit == ValueOrZero(profit.allHandsActual, profitIndex)
    IN  [profitWithoutRake |-> profitWithoutRake,
         actualProfit |-> actualProfit,
         rakeImpact |-> NumAdd(profitWithoutRake, NumMul(<<0 - 1, 1>>, actualProfit)),
         showdownProfit |-> ValueOrZero(profit.showdownOnly, profitIndex),
         noShowdownProfit |-> ValueOrZero(profit.noShowdownOnly, profitIndex),
         bb100WithoutRake |-> ValueOrZero(bb100.allHandsWithRakeBB100, bb100Index),
         bb100Actual |-> ValueOrZero(bb100.allHandsActualBB100, bb100Index),
         bb100Showdown |-> ValueOrZero(bb100.showdownOnlyBB100, bb100Index),
         bb100NoShowdown |-> ValueOrZero(bb100.noShowdownOnlyBB100, bb100Index)]

getFinalStatistics(profit, bb100) ==
    LET totalHands == Len(profit.allHandsWithRake)
    IN  IF totalHands = 0
        THEN [totalHands |-> 0, statistics |-> createEmptyStatistics]
        ELSE [totalHands |-> totalHands,
              statistics |-> buildStatistics(profit, bb100,
                                             Len(profit.allHandsWithRake) - 1,
                                             Len(bb100.allHandsWithRakeBB100) - 1)]

\* One iteration of the forEach of processProfitDataWithSmoothing.
ProfitStep ==
    /\ cpc = "profit"
    /\ index < Len(chartHands)
    /\ LET h == chartHands[index + 1]
           handNumber == index + 1
           stats == updateCumulativeStats(cumulativeStats, h)
           acc == accumulateIntervalData(intervalAccumulator, stats)
       IN  /\ cumulativeStats' = stats
           /\ IF shouldCreateDataPoint(handNumber, Interval, index, Len(chartHands))
              THEN /\ profitData' = addProfitDataPoints(profitData, acc, handNumber,
                                                        h.hand_start_time)
                   /\ intervalAccumulator' = initializeIntervalAccumulator
              ELSE /\ profitData' = profitData
                   /\ intervalAccumulator' = acc
    /\ index' = index + 1
    /\ UNCHANGED <<chartHands, optInterval, cpc, cumulativeBigBlinds, bb100Data,
                   finalStatistics>>

\* processProfitDataWithSmoothing returns; processBB100DataWithSmoothing starts
ProfitReturn ==
    /\ cpc = "profit"
    /\ index = Len(chartHands)
    /\ cpc' = "bb100"
    /\ index' = 0
    /\ cumulativeStats' = initializeCumulativeStats
    /\ cumulativeBigBlinds' = Zero
    /\ intervalAccumulator' = initializeBB100Accumulator
    /\ bb100Data' = EmptyBB100Data
    /\ UNCHANGED <<chartHands, optInterval, profitData, finalStatistics>>

\* One iteration of the forEach of processBB100DataWithSmoothing.
BB100Step ==
    /\ cpc = "bb100"
    /\ index < Len(chartHands)
    /\ LET h == chartHands[index + 1]
           handNumber == index + 1
           stats == updateCumulativeStats(cumulativeStats, h)
           bigBlinds == NumAdd(cumulativeBigBlinds, Dollars(h.big_blind))
           acc == accumulateBB100Data(intervalAccumulator,
                                      calculateCurrentBB100(stats, bigBlinds))
       IN  /\ cumulativeStats' = stats
           /\ cumulativeBigBlinds' = bigBlinds
           /\ IF shouldCreateDataPoint(handNumber, bb100Interval, index, Len(chartHands))
              THEN /\ bb100Data' = addBB100DataPoints(bb100Data, acc, handNumber,
                                                      h.hand_start_time)
                   /\ intervalAccumulator' = initializeBB100Accumulator
              ELSE /\ bb100Data' = bb100Data
                   /\ intervalAccumulator' = acc
    /\ index' = index + 1
    /\ UNCHANGED <<chartHands, optInterval, cpc, profitData, finalStatistics>>

BB100Return ==
    /\ cpc = "bb100"
    /\ index = Len(chartHands)
    /\ cpc' = "stats"
    /\ UNCHANGED <<chartHands, optInterval, index, cumulativeStats,
                   cumulativeBigBlinds, intervalAccumulator, profitData, bb100Data,
                   finalStatistics>>

GetFinalStatistics ==
    /\ cpc = "stats"
    /\ finalStatistics' = <<getFinalStatistics(profitData, bb100Data)>>
    /\ cpc' = "done"
    /\ UNCHANGED <<chartHands, optInterval, index, cumulativeStats,
                   cumulativeBigBlinds, intervalAccumulator, profitData, bb100Data>>

(***************************************************************************)
(* SpecChart: the two trend series over every short sequence of hands      *)
(***************************************************************************)
PokerHand(profit, rake, bigBlind, result) ==
    [hero_profit |-> profit, hero_rake |-> rake, big_blind |-> bigBlind,
     hero_hand_result |-> result, hand_start_time |-> 0,
     hero_position |-> "BTN", final_stage |-> "preflop",
     hero_preflop_actions |-> <<>>, hero_flop_actions |-> <<>>,
     hero_turn_actions |-> <<>>, hero_river_actions |-> <<>>]

ChartHandInputs ==
    {PokerHand(1500, 250, 100, SHOWDOWN_WIN),
     PokerHand(0 - 500, 250, 100, NO_SHOWDOWN_LOSS),
     PokerHand(0, 250, 200, SHOWDOWN_LOSS),
     PokerHand(330, 0, 0, NO_SHOWDOWN_WIN)}

\* the query returns the hands in ascending start time
InStartOrder(list) == [i \in DOMAIN list |-> [list[i] EXCEPT !.hand_start_time = i]]

InitChart ==
    /\ HandInit
    /\ IngestIdle
    /\ PosInit
    /\ TablesIdle
    /\ CommandIdle
    /\ \E list \in Files(ChartHandInputs, MaxChartHands) : chartHands = InStartOrder(list)
    /\ optInterval \in 0 .. MaxInterval
    /\ cpc = "profit"
    /\ index = 0
    /\ cumulativeStats = initializeCumulativeStats
    /\ cumulativeBigBlinds = Zero
    /\ intervalAccumulator = initializeIntervalAccumulator
    /\ profitData = EmptyProfitData
    /\ bb100Data = EmptyBB100Data
    /\ finalStatistics = <<>>

NextChart ==
    \/ ProfitStep /\ UNCHANGED <<handVars, ingestVars, posVars, tableVars, commandVars>>
    \/ ProfitReturn /\ UNCHANGED <<handVars, ingestVars, posVars, tableVars, commandVars>>
    \/ BB100Step /\ UNCHANGED <<handVars, ingestVars, posVars, tableVars, commandVars>>
    \/ BB100Return /\ UNCHANGED <<handVars, ingestVars, posVars, tableVars, commandVars>>
    \/ GetFinalStatistics /\ UNCHANGED <<handVars, ingestVars, posVars, tableVars, commandVars>>

SpecChart == InitChart /\ [][NextChart]_vars

(***************************************************************************)
(* ChartCalculator: the profit/loss table and the action table             *)
(***************************************************************************)
STAGES == <<"preflop", "flop", "turn", "river", "showdown">>

getAllPositions == <<"UTG", "HJ", "CO", "BTN", "SB", "BB">>

\* POKER.STAGES.indexOf(stage)
getStageIndex(stage) ==
    IF \E j \in DOMAIN STAGES : STAGES[j] = stage
    THEN (CHOOSE j \in DOMAIN STAGES : STAGES[j] = stage) - 1
    ELSE 0 - 1

\* variant: every hand counts as having reached every stage
handReachedStage_always(h, stage) == TRUE

handReachedStage(h, stage) == getStageIndex(h.final_stage) >= getStageIndex(stage)

\* <<>> for null, else <<the last action code>>
getLastActionForStage(h, stage) ==
    LET actions == IF stage = "preflop" THEN <<h.hero_preflop_actions>>
                   ELSE IF stage = "flop" THEN <<h.hero_flop_actions>>
                   ELSE IF stage = "turn" THEN <<h.hero_turn_actions>>
                   ELSE IF stage = "river" THEN <<h.hero_river_actions>>
                   ELSE <<>>
    IN  IF actions # <<>> /\ Len(actions[1]) > 0
        THEN <<actions[1][Len(actions[1])]>>
        ELSE <<>>

RECURSIVE SumProfit(_)
\* hands.reduce((sum, hand) => sum + hand.hero_profit, 0)
SumProfit(list) ==
    IF list = <<>> THEN Zero
    ELSE NumAdd(SumProfit(SubSeq(list, 1, Len(list) - 1)),
                Dollars(list[Len(list)].hero_profit))

RECURSIVE SumBigBlind(_)
\* hands.reduce((sum, hand) => sum + hand.big_blind, 0)
SumBigBlind(list) ==
    IF list = <<>> THEN Zero
    ELSE NumAdd(SumBigBlind(SubSeq(list, 1, Len(list) - 1)),
                Dollars(list[Len(list)].big_blind))

\* one row of the profit/loss table
StreetProfitRow(position, rowHands, avgBigBlind) ==
    LET IsProfit(h) == h.hero_profit > 0
        IsLoss(h) == h.hero_profit <= 0
        profitHands == SelectSeq(rowHands, IsProfit)
        lossHands == SelectSeq(rowHands, IsLoss)
        profitBB == roundToDecimalsAt(NumDiv(SumProfit(profitHands), avgBigBlind), 2)
        lossBB == roundToDecimalsAt(NumDiv(SumProfit(lossHands), avgBigBlind), 2)
    IN  [position |-> position, profit |-> profitBB, loss |-> lossBB,
         totalPnL |-> roundToDecimalsAt(NumAdd(profitBB, lossBB), 2),
         profitCount |-> Len(profitHands), lossCount |-> Len(lossHands)]

StreetProfitStage(list, stage) ==
    LET AtStage(h) == h.final_stage = stage
        stageHands == SelectSeq(list, AtStage)
        avgBigBlind == IF Len(stageHands) > 0
                       THEN NumDiv(SumBigBlind(stageHands), <<Len(stageHands), 1>>)
                       ELSE Num(10, 100)
    IN  [stage |-> stage,
         positions |->
             <<StreetProfitRow("Overall", stageHands, avgBigBlind)>>
             \o [j \in DOMAIN getAllPositions |->
                    LET At(h) == h.hero_position = getAllPositions[j]
                    IN  StreetProfitRow(getAllPositions[j],
                                        SelectSeq(stageHands, At), avgBigBlind)]]

calculateStreetProfitAnalysisChartData(list) ==
    [stage \in {STAGES[j] : j \in DOMAIN STAGES} |-> StreetProfitStage(list, stage)]

\* (count / total) * 100 rounded to one decimal, 0 when the row has no hands
ActionPct(count, total) ==
    IF total > 0
    THEN roundToDecimalsAt(NumMul(NumDiv(<<count, 1>>, <<total, 1>>), <<100, 1>>), 1)
    ELSE Zero

ActionStatsRow(position, stageHands, stage, total) ==
    LET Count(code) ==
            LET Is(h) == getLastActionForStage(h, stage) = <<code>>
            IN  Len(SelectSeq(stageHands, Is))
    IN  [position |-> IF position = "" THEN "Overall" ELSE position,
         raisePct |-> ActionPct(Count("R"), total),
         betPct |-> ActionPct(Count("B"), total),
         callPct |-> ActionPct(Count("C"), total),
         checkPct |-> ActionPct(Count("X"), total),
         foldPct |-> ActionPct(Count("F"), total),
         totalHands |-> total]

\* variant: the percentages are taken over all the hands of the position
calculatePositionActionStats_allHands(list, stage, position) ==
    LET At(h) == h.hero_position = position
        filteredHands == IF position # "" THEN SelectSeq(list, At) ELSE list
        Acted(h) == handReachedStage(h, stage) /\ getLastActionForStage(h, stage) # <<>>
        stageHands == SelectSeq(filteredHands, Acted)
    IN  ActionStatsRow(position, stageHands, stage, Len(filteredHands))

\* position "" stands for null: the Overall row
calculatePositionActionStats(list, stage, position) ==
    LET At(h) == h.hero_position = position
        filteredHands == IF position # "" THEN SelectSeq(list, At) ELSE list
        Acted(h) == handReachedStage(h, stage) /\ getLastActionForStage(h, stage) # <<>>
        stageHands == SelectSeq(filteredHands, Acted)
    IN  ActionStatsRow(position, stageHands, stage, Len(stageHands))

calculateActionProportions(list, stage) ==
    [stage |-> stage,
     positions |->
         <<calculatePositionActionStats(list, stage, "")>>
         \o [j \in DOMAIN getAllPositions |->
                calculatePositionActionStats(list, stage, getAllPositions[j])]]

WinRateRow(position, rowHands) ==
    LET Won(h) == h.hero_profit > 0
        wins == Len(SelectSeq(rowHands, Won))
        total == Len(rowHands)
    IN  [position |-> position,
         raisePct |-> IF total > 0
                      THEN NumMul(NumDiv(<<wins, 1>>, <<total, 1>>), <<100, 1>>)
                      ELSE Zero,
         betPct |-> Zero, callPct |-> Zero, checkPct |-> Zero, foldPct |-> Zero,
         totalHands |-> total]

calculateShowdownWinRates(list) ==
    LET AtShowdown(h) == h.final_stage = "showdown"
        showdownHands == SelectSeq(list, AtShowdown)
    IN  [stage |-> "showdown",
         positions |->
             <<WinRateRow("Overall", showdownHands)>>
             \o [j \in DOMAIN getAllPositions |->
                    LET At(h) == h.hero_position = getAllPositions[j]
                    IN  WinRateRow(getAllPositions[j], SelectSeq(showdownHands, At))]]

calculateActionAnalysisChartData(list) ==
    [stage \in {STAGES[j] : j \in DOMAIN STAGES} |->
        IF stage = "showdown" THEN calculateShowdownWinRates(list)
        ELSE calculateActionProportions(list, stage)]

\* the second ChartCommand.execute: the profit/loss table, then the action table
CalculateStreetProfit ==
    /\ tpc = "street"
    /\ streetProfitData' = <<calculateStreetProfitAnalysisChartData(tableHands)>>
    /\ tpc' = "action"
    /\ UNCHANGED <<tableHands, actionAnalysisData>>

CalculateActionAnalysis ==
    /\ tpc = "action"
    /\ actionAnalysisData' = <<calculateActionAnalysisChartData(tableHands)>>
    /\ tpc' = "done"
    /\ UNCHANGED <<tableHands, streetProfitData>>

(***************************************************************************)
(* SpecTables: the two tables over short hand lists and over every         *)
(* distribution of last actions in one bucket                              *)
(***************************************************************************)
Staged(h, position, stage, pre, flop) ==
    [h EXCEPT !.hero_position = position, !.final_stage = stage,
              !.hero_preflop_actions = pre, !.hero_flop_actions = flop]

TableHandInputs ==
    {Staged(PokerHand(1500, 250, 100, SHOWDOWN_WIN), "BTN", "showdown", <<"C">>, <<"X", "B">>),
     Staged(PokerHand(0 - 500, 0, 100, NO_SHOWDOWN_LOSS), "BTN", "flop", <<"R">>, <<"F">>),
     Staged(PokerHand(0 - 100, 0, 200, NO_SHOWDOWN_LOSS), "BB", "preflop", <<"F">>, <<>>),
     Staged(PokerHand(50, 0, 100, NO_SHOWDOWN_WIN), "BB", "preflop", <<>>, <<>>),
     Staged(PokerHand(330, 10, 0, NO_SHOWDOWN_WIN), "SB", "flop", <<"C">>, <<"B">>),
     Staged(PokerHand(0, 0, 0, SHOWDOWN_LOSS), "CO", "showdown", <<"X">>, <<"X">>),
     Staged(PokerHand(0 - 200, 0, 100, NO_SHOWDOWN_LOSS), "UTG", "preflop", <<"C">>, <<"F">>)}

ActionCodes == <<"F", "X", "C", "B", "R">>

\* counts[j] hands whose last flop action is ActionCodes[j], all on the button
HandsWithLastActions(counts) ==
    LET upTo(j) == IF j = 0 THEN 0
                   ELSE IF j = 1 THEN counts[1]
                   ELSE IF j = 2 THEN counts[1] + counts[2]
                   ELSE IF j = 3 THEN counts[1] + counts[2] + counts[3]
                   ELSE IF j = 4 THEN counts[1] + counts[2] + counts[3] + counts[4]
                   ELSE counts[1] + counts[2] + counts[3] + counts[4] + counts[5]
        codeAt(i) == ActionCodes[CHOOSE j \in 1 .. 5 : upTo(j - 1) < i /\ i <= upTo(j)]
    IN  [i \in 1 .. upTo(5) |->
            Staged(PokerHand(0 - 100, 0, 100, NO_SHOWDOWN_LOSS), "BTN", "flop",
                   <<"C">>, <<"X", codeAt(i)>>)]

Distributions ==
    {c \in [1 .. 5 -> 0 .. MaxSample] : c[1] + c[2] + c[3] + c[4] + c[5] <= MaxSample}

InitTables ==
    /\ HandInit
    /\ IngestIdle
    /\ PosInit
    /\ SeriesIdle
    /\ CommandIdle
    /\ \/ \E list \in Files(TableHandInputs, MaxTableHands) : tableHands = InStartOrder(list)
       \/ \E c \in Distributions : tableHands = InStartOrder(HandsWithLastActions(c))
    /\ tpc = "street"
    /\ streetProfitData = <<>>
    /\ actionAnalysisData = <<>>

NextTables ==
    \/ CalculateStreetProfit /\ UNCHANGED <<handVars, ingestVars, posVars, seriesVars, commandVars>>
    \/ CalculateActionAnalysis /\ UNCHANGED <<handVars, ingestVars, posVars, seriesVars, commandVars>>

SpecTables == InitTables /\ [][NextTables]_vars

(***************************************************************************)
(* The chart query: SqliteManager.getPokerHandsForChart with a date range  *)
(*                                                                         *)
(* A text is the sequence of its characters' codes, where a zero-padded    *)
(* field of digits (the year, the month, the day, the time of day) counts  *)
(* as one character whose code is the field's number: texts of one layout  *)
(* compare as the strings do.                                              *)
(***************************************************************************)
SLASH == 47
DASH == 45
SPACE == 32

\* the header's '2025/07/13 17:40:12', stored as captured (parseHandHeader)
StartTimeText(date, time) ==
    <<date[1], SLASH, date[2], SLASH, date[3], SPACE, time>>

\* the --start and --end options: 'YYYY-MM-DD'
DateOption(date) == <<date[1], DASH, date[2], DASH, date[3]>>

RECURSIVE TextLeqFrom(_, _, _)
\* a <= b under SQLite's BINARY collation, from character i on
TextLeqFrom(a, b, i) ==
    IF i > Len(a) THEN TRUE
    ELSE IF i > Len(b) THEN FALSE
    ELSE IF a[i] < b[i] THEN TRUE
    ELSE IF a[i] > b[i] THEN FALSE
    ELSE TextLeqFrom(a, b, i + 1)

TextLeq(a, b) == TextLeqFrom(a, b, 1)

\* WHERE hand_start_time >= ? AND hand_start_time <= ?
InRange(text, range) ==
    /\ TextLeq(range.start, text)
    /\ TextLeq(text, range.end)

\* the rows the query may return: those the WHERE clause keeps, in an order
\* that ascends in hand_start_time (rows of equal time in any order)
buildChartQuery(table, range) ==
    LET kept == {j \in DOMAIN table :
                    range = <<>> \/ InRange(table[j].hand_start_time, range[1])}
    IN  {[k \in 1 .. Cardinality(kept) |-> table[order[k]]] :
            order \in {o \in [1 .. Cardinality(kept) -> kept] :
                          /\ \A k1, k2 \in DOMAIN o : k1 # k2 => o[k1] # o[k2]
                          /\ \A k \in DOMAIN o :
                                 k > 1 => TextLeq(table[o[k - 1]].hand_start_time,
                                                  table[o[k]].hand_start_time)}}

\* options.start && options.end ? {start, end} : undefined
DateRangeOption(start, end) ==
    IF start # <<>> /\ end # <<>> THEN <<[start |-> start[1], end |-> end[1]]>>
    ELSE <<>>

\* initializeDatabase: connect and the connection test succeed
InitializeDatabase ==
    /\ xpc = "connect"
    /\ xpc' = "fetch"
    /\ UNCHANGED <<dateRange, queryRows, chartFiles, tableVars>>

\* getHandsData; an empty result ends the command without charts
GetHandsData ==
    /\ xpc = "fetch"
    /\ queryRows' \in buildChartQuery(store, dateRange)
    /\ xpc' = IF Len(queryRows') = 0 THEN "done" ELSE "calculate"
    /\ UNCHANGED <<dateRange, chartFiles, tableVars>>

\* the calculations of execute (the position series are not part of the model)
CalculateChartData ==
    /\ xpc = "calculate"
    /\ tableHands' = queryRows
    /\ streetProfitData' = <<calculateStreetProfitAnalysisChartData(queryRows)>>
    /\ actionAnalysisData' = <<calculateActionAnalysisChartData(queryRows)>>
    /\ tpc' = "done"
    /\ xpc' = "street"
    /\ UNCHANGED <<dateRange, queryRows, chartFiles>>

\* generateStreetAnalysisChart: rendered and saved
GenerateStreetAnalysisChart ==
    /\ xpc = "street"
    /\ chartFiles' = chartFiles \cup {"street-analysis"}
    /\ xpc' = "combined"
    /\ UNCHANGED <<dateRange, queryRows, tableVars>>

\* generateCombinedPositionAnalysisChart: rendered and saved
GenerateCombinedPositionAnalysisChart ==
    /\ xpc = "combined"
    /\ chartFiles' = chartFiles \cup {"combined-position-analysis"}
    /\ xpc' = "statistics"
    /\ UNCHANGED <<dateRange, queryRows, tableVars>>

\* getBasicStatistics and logResults
LogResults ==
    /\ xpc = "statistics"
    /\ xpc' = "done"
    /\ UNCHANGED <<dateRange, queryRows, chartFiles, tableVars>>

\* a step of execute raises (the connection, the query, the canvas, the
\* directory or the file write): the catch logs and rethrows
CommandFails ==
    /\ xpc \in {"connect", "fetch", "street", "combined"}
    /\ xpc' = "failed"
    /\ UNCHANGED <<dateRange, queryRows, chartFiles, tableVars>>

(***************************************************************************)
(* SpecCommand: the chart command over a stored table and a date range     *)
(***************************************************************************)
Dates == {<<2024, 12, 31>>, <<2025, 7, 13>>, <<2025, 7, 14>>}

StoredHand(date, time) ==
    [Staged(PokerHand(1500, 250, 100, SHOWDOWN_WIN), "BTN", "showdown", <<"C">>, <<"B">>)
        EXCEPT !.hand_start_time = StartTimeText(date, time)]

StoredHandInputs ==
    {StoredHand(<<2024, 12, 31>>, 1), StoredHand(<<2025, 7, 13>>, 1),
     StoredHand(<<2025, 7, 13>>, 2), StoredHand(<<2025, 7, 14>>, 1)}

DateOptions == {<<>>} \cup {<<DateOption(d)>> : d \in Dates}

InitCommand ==
    /\ HandInit
    /\ PosInit
    /\ IngestRunsIdle
    /\ SeriesIdle
    /\ TablesIdle
    /\ store \in Files(StoredHandInputs, MaxStoredHands)
    /\ \E start, end \in DateOptions : dateRange = DateRangeOption(start, end)
    /\ xpc = "connect"
    /\ queryRows = <<>>
    /\ chartFiles = {}

NextCommand ==
    \/ InitializeDatabase /\ UNCHANGED <<handVars, ingestVars, posVars, seriesVars>>
    \/ GetHandsData /\ UNCHANGED <<handVars, ingestVars, posVars, seriesVars>>
    \/ CalculateChartData /\ UNCHANGED <<handVars, ingestVars, posVars, seriesVars>>
    \/ GenerateStreetAnalysisChart /\ UNCHANGED <<handVars, ingestVars, posVars, seriesVars>>
    \/ GenerateCombinedPositionAnalysisChart
           /\ UNCHANGED <<handVars, ingestVars, posVars, seriesVars>>
    \/ LogResults /\ UNCHANGED <<handVars, ingestVars, posVars, seriesVars>>
    \/ CommandFails /\ UNCHANGED <<handVars, ingestVars, posVars, seriesVars>>

SpecCommand == InitCommand /\ [][NextCommand]_vars

(***************************************************************************)
(* SpecScan: the scan loop of parseHandLogFile on its own, one run over    *)
(* every short file; the loop runs to its end once started                 *)
(***************************************************************************)
ScanFileLines == {Header("a"), Header("b"), BadHeader, Summary, Other}

StoredBefore == {<<>>, <<dbHand(parseCompleteHand(<<Header("a")>>, 1)[1].hand)>>}

InitScan ==
    /\ HandInit
    /\ PosInit
    /\ ChartIdle
    /\ \E f \in Files(ScanFileLines, MaxScanLines) : file = [p \in Procs |-> IF p = 1 THEN f ELSE <<>>]
    /\ pc = [p \in Procs |-> IF p = 1 THEN "scan" ELSE "done"]
    /\ idx = [p \in Procs |-> 1]
    /\ hands = [p \in Procs |-> <<>>]
    /\ skippedHands = [p \in Procs |-> 0]
    /\ saved = [p \in Procs |-> 0]
    /\ handsParsed = [p \in Procs |-> Null]
    /\ totalProfit = [p \in Procs |-> 0]
    /\ inserted = [p \in Procs |-> <<>>]
    /\ raised = [p \in Procs |-> <<>>]
    /\ failure = [p \in Procs |-> ""]
    /\ store \in StoredBefore
    /\ storeAfterFirst = <<>>
    /\ concurrent = FALSE
    /\ faulty = FALSE

NextScan ==
    \/ ScanBadHeader(1) /\ UNCHANGED <<handVars, posVars, chartVars>>
    \/ ScanHand(1) /\ UNCHANGED <<handVars, posVars, chartVars>>
    \/ ScanEnd(1) /\ UNCHANGED <<handVars, posVars, chartVars>>

SpecScan == InitScan /\ [][NextScan]_vars /\ WF_vars(NextScan)

(***************************************************************************)
(* SpecParse: one run of parseHandLogFile over a file, with the while loops *)
(* of parseCompleteHand and parseSummarySection taken one line at a time,  *)
(* followed by the save loop.  idx[1] is the index i of the loops, nLines  *)
(* the number of lines consumed after the header of the hand under parse.  *)
(***************************************************************************)
\* lines of the betting rounds
BettingLines ==
    {Hero({"folds"}, Null), Hero({"checks"}, Null),
     Hero({"calls"}, 1500), Hero({"calls"}, Null), Hero({"bets"}, 1005),
     Hero({"raises"}, 2000), Hero({"bets", "raises"}, 2000),
     Hero({"folds", "checks"}, Null), Hero({"checks", "calls"}, 2000),
     Hero({"posts big blind", "folds"}, 100), Hero({"posts small blind"}, 50),
     Hero({}, Null), Uncalled(1500),
     Street("flop", <<Flop3>>), Street("turn", <<Flop3, <<"7s">>>>)}

\* lines of complete hands, one after another
WholeHandLines ==
    {Header("b"), BadHeader, Table(3), Seat(3), Street("flop", <<Flop3>>),
     Street("river", <<>>), Hero({"calls"}, 2000), Summary,
     TotalPot(5250, 250, Null), Result(3, TRUE, 5000, Null), Other}

saveVars == <<saved, handsParsed, totalProfit, inserted, raised, failure, store,
              storeAfterFirst, concurrent, faulty>>

\* i < lines.length
InFile == idx[1] <= Len(file[1])

Advance == idx' = [idx EXCEPT ![1] = @ + 1]

\* parseHandLogFile: a line that does not start a hand, i++
SkipLine ==
    /\ pc[1] = "scan" /\ hpc = "between"
    /\ InFile /\ ~StartsHand(file[1][idx[1]])
    /\ Advance
    /\ UNCHANGED <<handVars, file, pc, hands, skippedHands, saveVars>>

\* parseCompleteHand returns null on a header it cannot parse, i++
RejectHeader ==
    /\ pc[1] = "scan" /\ hpc = "between"
    /\ InFile /\ file[1][idx[1]].k = "badheader"
    /\ Advance
    /\ UNCHANGED <<handVars, file, pc, hands, skippedHands, saveVars>>

\* parseCompleteHand: the header is parsed, the hand and the locals start fresh
BeginHand ==
    /\ pc[1] = "scan" /\ hpc = "between"
    /\ InFile /\ file[1][idx[1]].k = "header"
    /\ SetParseState(NewState(file[1][idx[1]].id))
    /\ hpc' = "scan"
    /\ nLines' = 0
    /\ final' = <<>>
    /\ Advance
    /\ UNCHANGED <<file, pc, hands, skippedHands, saveVars>>

\* one iteration of the while loop of parseCompleteHand before the summary
ParseFileLine ==
    /\ pc[1] = "scan" /\ hpc = "scan"
    /\ InFile /\ ~StartsHand(file[1][idx[1]]) /\ file[1][idx[1]].k # "summary"
    /\ SetParseState(ScanLine(ParseState, file[1][idx[1]]))
    /\ nLines' = nLines + 1
    /\ Advance
    /\ UNCHANGED <<hpc, final, file, pc, hands, skippedHands, saveVars>>

\* the '*** SUMMARY ***' line: parseSummarySection starts after it
EnterSummaryAt ==
    /\ pc[1] = "scan" /\ hpc = "scan"
    /\ InFile /\ file[1][idx[1]].k = "summary"
    /\ hpc' = "summary"
    /\ nLines' = nLines + 1
    /\ Advance
    /\ UNCHANGED <<hand, heroSeatNumber, buttonSeatNumber, currentSection, final,
                   file, pc, hands, skippedHands, saveVars>>

\* one iteration of the while loop of parseSummarySection
ParseSummaryLineAt ==
    /\ pc[1] = "scan" /\ hpc = "summary"
    /\ InFile /\ ~StartsHand(file[1][idx[1]])
    /\ SetParseState(SummaryLine(ParseState, file[1][idx[1]]))
    /\ nLines' = nLines + 1
    /\ Advance
    /\ UNCHANGED <<hpc, final, file, pc, hands, skippedHands, saveVars>>

\* the loop ends at the next hand or at the end of the lines: finalizeHand, and
\* parseHandLogFile looks the hand up and collects it; i = result.nextIndex
CompleteHand ==
    /\ pc[1] = "scan" /\ hpc \in {"scan", "summary"}
    /\ IF InFile THEN StartsHand(file[1][idx[1]]) ELSE TRUE
    /\ LET h == finalizeHand(hand, heroSeatNumber, buttonSeatNumber)
       IN  /\ final' = <<h>>
           /\ IF getPokerHandById(store, h.handId) # <<>>
              THEN /\ skippedHands' = [skippedHands EXCEPT ![1] = @ + 1]
                   /\ hands' = hands
              ELSE /\ hands' = [hands EXCEPT ![1] = Append(@, h)]
                   /\ skippedHands' = skippedHands
    /\ hpc' = "between"
    /\ UNCHANGED <<hand, heroSeatNumber, buttonSeatNumber, currentSection, nLines,
                   file, pc, idx, saveVars>>

\* i reached lines.length between two hands: the save loop starts
FileEnd ==
    /\ hpc = "between"
    /\ ~InFile
    /\ ScanEnd(1)
    /\ UNCHANGED handVars

InitParse ==
    /\ hand = NewHand("a")
    /\ heroSeatNumber = Null
    /\ buttonSeatNumber = Null
    /\ currentSection = "preflop"
    /\ hpc = "between"
    /\ nLines = 0
    /\ final = <<>>
    /\ PosInit
    /\ ChartIdle
    /\ \E rest \in Files(BettingLines, MaxParseLines)
                     \cup Files(WholeHandLines, MaxParseLines) :
           file = [p \in Procs |-> IF p = 1 THEN <<Header("a")>> \o rest ELSE <<>>]
    /\ pc = [p \in Procs |-> IF p = 1 THEN "scan" ELSE "done"]
    /\ idx = [p \in Procs |-> 1]
    /\ hands = [p \in Procs |-> <<>>]
    /\ skippedHands = [p \in Procs |-> 0]
    /\ saved = [p \in Procs |-> 0]
    /\ handsParsed = [p \in Procs |-> Null]
    /\ totalProfit = [p \in Procs |-> 0]
    /\ inserted = [p \in Procs |-> <<>>]
    /\ raised = [p \in Procs |-> <<>>]
    /\ failure = [p \in Procs |-> ""]
    /\ store = <<>>
    /\ storeAfterFirst = <<>>
    /\ concurrent = FALSE
    /\ faulty = FALSE

NextParse ==
    \/ SkipLine /\ UNCHANGED <<posVars, chartVars>>
    \/ RejectHeader /\ UNCHANGED <<posVars, chartVars>>
    \/ BeginHand /\ UNCHANGED <<posVars, chartVars>>
    \/ ParseFileLine /\ UNCHANGED <<posVars, chartVars>>
    \/ EnterSummaryAt /\ UNCHANGED <<posVars, chartVars>>
    \/ ParseSummaryLineAt /\ UNCHANGED <<posVars, chartVars>>
    \/ CompleteHand /\ UNCHANGED <<posVars, chartVars>>
    \/ FileEnd /\ UNCHANGED <<posVars, chartVars>>
    \/ SaveLookup(1) /\ UNCHANGED <<handVars, posVars, chartVars>>
    \/ SaveInsert(1) /\ UNCHANGED <<handVars, posVars, chartVars>>
    \/ Return(1) /\ UNCHANGED <<handVars, posVars, chartVars>>

SpecParse == InitParse /\ [][NextParse]_vars

(***************************************************************************)
(* Properties                                                              *)
(***************************************************************************)
Rows(table) == {table[j] : j \in DOMAIN table}
HeaderCount(lines) == Cardinality({j \in DOMAIN lines : lines[j].k = "header"})
Blank == {"", " "}
Wins == {"showdown_win", "no_showdown_win"}
Showdowns == {"showdown_win", "showdown_loss"}
\* rounding to cents, halves up, written without roundToDecimals
Round2(x) == LET r == x % 10 IN IF r >= 5 THEN x - r + 10 ELSE x - r
Rotation == <<"BTN", "SB", "BB", "UTG", "HJ", "CO">>
StreetTotal(f) ==
    f.heroInvestments["preflop"] + f.heroInvestments["flop"]
    + f.heroInvestments["turn"] + f.heroInvestments["river"]

\* C1: with two ingestion processes interleaving their lookups and inserts in
\* any order, the table never holds two rows of one hand id and neither
\* process raises: the insert that meets the UNIQUE constraint is a skip.
C1_AtMostOneRowPerHandId ==
    /\ \A i, j \in DOMAIN store : store[i].hand_id = store[j].hand_id => i = j
    /\ concurrent =>
          \A p \in Procs :
             /\ pc[p] # "error"
             /\ failure[p] = ""
             /\ pc[p] = "done" => saved[p] = Len(hands[p])

\* C1 witness: both processes returned and one of them met the constraint
C1_Witness ==
    /\ concurrent
    /\ pc[1] = "done" /\ pc[2] = "done"
    /\ \E p \in Procs : Len(raised[p]) > 0 /\ raised[p][1] = UNIQUE_FAILED

\* C2: a second run over the same file, after the first run returned, leaves
\* the table as the first run left it; when it returns, every hand of the
\* file was skipped as already present and it reports zero hands parsed.
C2_IdempotentIngestion ==
    (~concurrent /\ pc[1] = "done") =>
        /\ store = storeAfterFirst
        /\ hands[2] = <<>>
        /\ pc[2] = "done" =>
              /\ handsParsed[2] = 0
              /\ skippedHands[2] = HeaderCount(file[2])

\* C2 witness: the second run returned having skipped two stored hands
C2_Witness ==
    /\ ~concurrent
    /\ file[2] = file[1]
    /\ pc[1] = "done" /\ pc[2] = "done"
    /\ handsParsed[1] = 2 /\ Len(store) = 2
    /\ skippedHands[2] = 2

\* C3: no step of any run changes or removes a stored row; the only write is
\* the append of one row whose hand id the table did not hold.
C3_StoredRowsImmutable ==
    [][/\ Len(store') >= Len(store)
       /\ \A j \in DOMAIN store : store'[j] = store[j]
       /\ store' # store =>
             /\ Len(store') = Len(store) + 1
             /\ \A j \in DOMAIN store : store[j].hand_id # store'[Len(store')].hand_id
      ]_vars

\* C3 witness: a run that parsed hand H with other content than the stored
\* row of H has returned, and the stored row is not that run's
C3_Witness ==
    /\ concurrent
    /\ pc[1] = "done" /\ pc[2] = "done"
    /\ \E p \in Procs : \E k \in DOMAIN hands[p] :
          /\ dbHand(hands[p][k]) \notin Rows(store)
          /\ \E r \in Rows(store) : r.hand_id = hands[p][k].handId

\* C4: an insert that fails on the UNIQUE constraint is a skip and the save
\* loop goes on with the next hand; an insert that fails otherwise raises out
\* of the run, which inserts nothing more, and the rows it inserted before
\* stay in the table.
C4_InsertFailure ==
    [][\A p \in Procs :
          /\ raised'[p] = Append(raised[p], UNIQUE_FAILED) =>
                /\ pc'[p] = "save"
                /\ saved'[p] = saved[p] + 1
                /\ failure'[p] = ""
                /\ store' = store
          /\ raised'[p] = Append(raised[p], IO_FAILED) =>
                /\ pc'[p] = "error"
                /\ failure'[p] = "insert"
                /\ saved'[p] = saved[p]
                /\ store' = store
          /\ pc[p] = "error" =>
                /\ pc'[p] = "error"
                /\ inserted'[p] = inserted[p]
                /\ saved'[p] = saved[p]
          /\ Rows(inserted'[p]) \subseteq Rows(store')
      ]_vars

\* C4 witness: the insert of the second of three new hands failed on an I/O
\* error, the first hand's row is stored and the third was never inserted
C4_Witness ==
    \E p \in Procs :
       /\ failure[p] = "insert"
       /\ Len(hands[p]) = 3
       /\ saved[p] = 1
       /\ inserted[p] = <<dbHand(hands[p][1])>>
       /\ dbHand(hands[p][1]) \in Rows(store)
       /\ dbHand(hands[p][3]) \notin Rows(store)

\* C5: when the store raises nothing, parseHandLogFile returns without
\* raising for every sequence of lines, and every hand with a header the
\* parser accepts is then stored.
C5_ParsingNeverAborts ==
    ~faulty =>
       \A p \in Procs :
          /\ pc[p] # "error"
          /\ pc[p] = "done" =>
                \A j \in DOMAIN file[p] :
                   file[p][j].k = "header" =>
                      \E r \in Rows(store) : r.hand_id = file[p][j].id

\* C6: a hand whose id is empty or blank is rejected by saveHandToDatabase
\* before the insert is called: no row with such an id is ever stored, and
\* the run that met it has raised on that hand.
C6_BlankIdNeverStored ==
    /\ \A r \in Rows(store) : r.hand_id \notin Blank
    /\ \A p \in Procs :
          /\ pc[p] = "insert" => hands[p][saved[p] + 1].handId \notin Blank
          /\ failure[p] = "invalid_id" =>
                /\ pc[p] = "error"
                /\ hands[p][saved[p] + 1].handId \in Blank
                /\ \A r \in Rows(inserted[p]) : r.hand_id \notin Blank

\* C6 witness: a run raised on a hand with a blank id
C6_Witness ==
    \E p \in Procs :
       /\ failure[p] = "invalid_id"
       /\ hands[p][saved[p] + 1].handId = " "

\* C7: heroProfit of a finalized hand is round2(collected - total) when the
\* collected amount is positive and round2(-total) otherwise, total being the
\* rounded sum of the four street investments.
C7_ProfitFormula ==
    final # <<>> =>
       LET total == Round2(StreetTotal(final[1]))
           collected == hand.heroProfit
       IN  final[1].heroProfit =
              IF collected > 0 THEN Round2(collected - total) ELSE Round2(0 - total)

\* C7 witness: collected 5.00 against 2.00 invested gives 3.00
C7_Witness ==
    /\ final # <<>>
    /\ hand.heroProfit = 5000
    /\ StreetTotal(final[1]) = 2000
    /\ final[1].heroProfit = 3000

\* C8: handResult of a finalized hand is a win exactly when its heroProfit
\* is positive.  Stated for the hands whose street investments are not
\* negative, so that a refund larger than the street's investment plays no
\* part in the answer.
C8_ProfitSign ==
    (final # <<>> /\ \A s \in DOMAIN final[1].heroInvestments :
                        final[1].heroInvestments[s] >= 0) =>
        (final[1].handResult \in Wins <=> final[1].heroProfit > 0)

\* C9: finalStage of a finalized hand is showdown exactly when its handResult
\* is a showdown result, whatever cards were seen and with or without a
\* summary or a hero seat.
C9_ShowdownStage ==
    final # <<>> =>
       /\ final[1].finalStage = "showdown" <=> final[1].handResult \in Showdowns
       /\ (hpc = "done" /\ hand.handResult = "") =>
             /\ final[1].handResult = "no_showdown_loss"
             /\ final[1].finalStage # "showdown"

\* C9 witness: a hand shown down after the river card was seen
C9_Witness ==
    /\ final # <<>>
    /\ final[1].riverCard # <<>>
    /\ final[1].handResult \in Showdowns
    /\ final[1].finalStage = "showdown"

\* C10: with both seats found among 1..6, heroPosition is the entry of
\* [BTN, SB, BB, UTG, HJ, CO] at (heroSeat - buttonSeat + 6) mod 6; with a
\* seat missing it is BTN.
C10_PositionRotation ==
    posResult # "" =>
       /\ (posHero \in 1 .. 6 /\ posButton \in 1 .. 6) =>
             posResult = Rotation[((posHero - posButton + 6) % 6) + 1]
       /\ (posButton = 3 /\ posHero = 3) => posResult = "BTN"
       /\ (posButton = 3 /\ posHero = 4) => posResult = "SB"
       /\ (posButton = 3 /\ posHero = 2) => posResult = "CO"
       /\ (posHero = Null \/ posButton = Null) => posResult = "BTN"

\* C10 witness: button 3 and hero 2 wrap around to CO
C10_Witness == posButton = 3 /\ posHero = 2 /\ posResult = "CO"

SectionRank(section) ==
    IF section = "preflop" THEN 0 ELSE IF section = "flop" THEN 1
    ELSE IF section = "turn" THEN 2 ELSE 3

\* C11: within one hand currentSection starts at preflop and never moves to
\* an earlier street: every step of the scan leaves its rank in the order
\* preflop < flop < turn < river equal or higher.
C11_SectionNeverRegresses ==
    [][SectionRank(currentSection') >= SectionRank(currentSection)]_vars

\* C12: no street's investment of a finalized hand is negative.
C12_InvestmentNeverNegative ==
    final # <<>> =>
        \A s \in DOMAIN final[1].heroInvestments : final[1].heroInvestments[s] >= 0

Ordinals(points) == [j \in DOMAIN points |-> points[j].handNumber]
Values(points) == [j \in DOMAIN points |-> points[j].value]
Minus(x, y) == NumAdd(x, NumMul(<<0 - 1, 1>>, y))
SeriesComplete == cpc \in {"stats", "done"}

\* C13: once both calculations have returned, the four profit series and the
\* four BB/100 series have the same length and the same handNumber ordinals.
C13_SeriesSameOrdinals ==
    SeriesComplete =>
        LET o == Ordinals(profitData.allHandsWithRake)
        IN  /\ Ordinals(profitData.allHandsActual) = o
            /\ Ordinals(profitData.showdownOnly) = o
            /\ Ordinals(profitData.noShowdownOnly) = o
            /\ Ordinals(bb100Data.allHandsWithRakeBB100) = o
            /\ Ordinals(bb100Data.allHandsActualBB100) = o
            /\ Ordinals(bb100Data.showdownOnlyBB100) = o
            /\ Ordinals(bb100Data.noShowdownOnlyBB100) = o

\* three hands sampled every two: both kinds of series have points at 2 and 3
C13_Witness ==
    /\ SeriesComplete
    /\ Len(chartHands) = 3 /\ optInterval = 2
    /\ Ordinals(profitData.showdownOnly) = <<2, 3>>
    /\ Ordinals(bb100Data.noShowdownOnlyBB100) = <<2, 3>>

RECURSIVE RunningProfit(_)
\* the sum of hero_profit over the first m hands, in thousandths of a dollar
RunningProfit(m) ==
    IF m = 0 THEN 0 ELSE RunningProfit(m - 1) + chartHands[m].hero_profit

RECURSIVE WindowTotal(_, _)
\* the sum of the running profit after each of the hands a+1 .. b
WindowTotal(a, b) == IF b <= a THEN 0 ELSE WindowTotal(a, b - 1) + RunningProfit(b)

\* the mean over the hands a+1 .. b, to the nearest cent, halves up
WindowMean(a, b) ==
    LET c == b - a IN Num((2 * WindowTotal(a, b) + 10 * c) \div (20 * c), 100)

EmissionOrdinals ==
    {k \in 1 .. Len(chartHands) : k % Interval = 0 \/ k = Len(chartHands)}

\* C14: a point is emitted exactly at the multiples of the interval and at
\* the last hand, so there are ceil(n / interval) points and the last ordinal
\* is n; the accumulator restarts after every emission, so each point is the
\* mean over the hands since the previous point only, the last one over
\* n mod interval hands when the interval does not divide n.
C14_IntervalEmissionAndFlush ==
    LET n == Len(chartHands)
        o == Ordinals(profitData.allHandsActual)
    IN  /\ cpc = "profit" =>
               intervalAccumulator.count = (IF index = n THEN 0 ELSE index % Interval)
        /\ cpc # "profit" =>
               /\ {o[j] : j \in DOMAIN o} = EmissionOrdinals
               /\ \A j \in DOMAIN o : j > 1 => o[j - 1] < o[j]
               /\ Len(o) = (n + Interval - 1) \div Interval
               /\ n >= 1 => o[Len(o)] = n
               /\ n >= 1 /\ n % Interval # 0 =>
                      o[Len(o)] - (IF Len(o) = 1 THEN 0 ELSE o[Len(o) - 1]) = n % Interval
               /\ \A j \in DOMAIN o :
                      profitData.allHandsActual[j].value =
                          WindowMean(IF j = 1 THEN 0 ELSE o[j - 1], o[j])

\* three hands sampled every two: points at 2 and 3, the second the running
\* profit after the third hand alone
C14_Witness ==
    /\ cpc = "done"
    /\ Len(chartHands) = 3 /\ optInterval = 2
    /\ Ordinals(profitData.allHandsActual) = <<2, 3>>
    /\ chartHands[1].hero_profit = 1500 /\ chartHands[2].hero_profit = 0 - 500
    /\ chartHands[3].hero_profit = 330
    /\ Values(profitData.allHandsActual) = <<Num(125, 100), Num(133, 100)>>

RakeGap(stats) == Minus(stats.allWithRake, stats.allActual)
NoWinUpTo(m) == \A i \in 1 .. m : chartHands[i].hero_profit <= 0

\* C15: a hand with hero_profit <= 0 adds the same amount to the running sum
\* without rake as to the actual running sum, in either calculation, so the
\* two differ only through hands with profit > 0; the two profit series agree
\* at every point up to which no hand had a profit > 0.
C15_RakeOnlyWhenWinning ==
    [][/\ (cpc \in {"profit", "bb100"} /\ index' = index + 1
           /\ chartHands[index + 1].hero_profit <= 0)
          => RakeGap(cumulativeStats') = RakeGap(cumulativeStats)
       /\ \A j \in DOMAIN profitData'.allHandsActual :
              NoWinUpTo(profitData'.allHandsActual[j].handNumber)
              => profitData'.allHandsWithRake[j].value
                     = profitData'.allHandsActual[j].value]_vars

\* a lost hand that carries a rake has been added and a point emitted for it
C15_Witness ==
    /\ Len(chartHands) >= 1
    /\ chartHands[1].hero_profit < 0 /\ chartHands[1].hero_rake > 0
    /\ Len(profitData.allHandsActual) >= 1
    /\ profitData.allHandsWithRake[1].value = Num(0 - 50, 100)

StageNames == {STAGES[j] : j \in DOMAIN STAGES}
BettingStreets == {"preflop", "flop", "turn", "river"}
NumAbs(x) == IF NumGt(Zero, x) THEN Minus(Zero, x) ELSE x
NumLeq(x, y) == IsFinite(x) /\ IsFinite(y) /\ ~NumGt(x, y)

PctValues(row) == <<row.foldPct, row.checkPct, row.callPct, row.betPct, row.raisePct>>
PctSum(row) ==
    NumAdd(row.foldPct,
           NumAdd(row.checkPct, NumAdd(row.callPct, NumAdd(row.betPct, row.raisePct))))

\* C16: the aggregation produces no NaN and no Infinity: every bucket value
\* of the profit/loss table and every percentage and win rate of the action
\* table is a finite number, and the empty input gives all-zero rows.
C16_NoNaNOrInfinity ==
    /\ streetProfitData # <<>> =>
           \A stage \in StageNames :
               \A j \in DOMAIN streetProfitData[1][stage].positions :
                   LET row == streetProfitData[1][stage].positions[j]
                   IN  /\ IsFinite(row.profit) /\ IsFinite(row.loss)
                       /\ IsFinite(row.totalPnL)
                       /\ tableHands = <<>> =>
                              /\ row.profit = Zero /\ row.loss = Zero
                              /\ row.totalPnL = Zero
                              /\ row.profitCount = 0 /\ row.lossCount = 0
    /\ actionAnalysisData # <<>> =>
           \A stage \in StageNames :
               \A j \in DOMAIN actionAnalysisData[1][stage].positions :
                   LET row == actionAnalysisData[1][stage].positions[j]
                   IN  /\ \A k \in 1 .. 5 : IsFinite(PctValues(row)[k])
                       /\ tableHands = <<>> => PctSum(row) = Zero /\ row.totalHands = 0

\* C17 as stated: in every row of a betting street with a sample, the five
\* percentages, each rounded to one decimal, sum to within 0.1 of 100.
C17_PercentagesWithinOneTenth ==
    actionAnalysisData # <<>> =>
        \A stage \in BettingStreets :
            \A j \in DOMAIN actionAnalysisData[1][stage].positions :
                LET row == actionAnalysisData[1][stage].positions[j]
                IN  row.totalHands > 0 =>
                        NumLeq(NumAbs(Minus(PctSum(row), <<100, 1>>)), Num(1, 10))

\* C17 as amended: the sum is within 0.2 of 100.
C17_PercentagesWithinTwoTenths ==
    actionAnalysisData # <<>> =>
        \A stage \in BettingStreets :
            \A j \in DOMAIN actionAnalysisData[1][stage].positions :
                LET row == actionAnalysisData[1][stage].positions[j]
                IN  row.totalHands > 0 =>
                        NumLeq(NumAbs(Minus(PctSum(row), <<100, 1>>)), Num(2, 10))

\* fourteen hands on the flop, four last actions once each and the fifth ten
\* times: 7.1 four times and 71.4
C17_Witness ==
    /\ actionAnalysisData # <<>>
    /\ LET row == actionAnalysisData[1]["flop"].positions[1]
       IN  /\ row.totalHands = 14
           /\ row.foldPct = Num(71, 10) /\ row.raisePct = Num(714, 10)
           /\ PctSum(row) = Num(998, 10)

\* the calendar date of a stored start time and of a date option
DateOf(text) == <<text[1], text[3], text[5]>>
DateLeq(a, b) ==
    \/ a[1] < b[1]
    \/ a[1] = b[1] /\ a[2] < b[2]
    \/ a[1] = b[1] /\ a[2] = b[2] /\ a[3] <= b[3]
TimeLeq(a, b) ==
    \/ DateOf(a) # DateOf(b) /\ DateLeq(DateOf(a), DateOf(b))
    \/ DateOf(a) = DateOf(b) /\ a[7] <= b[7]
Occurrences(rows, r) == Cardinality({j \in DOMAIN rows : rows[j] = r})
Fetched == xpc \in {"calculate", "street", "combined", "statistics", "done"}

\* C18: with --start S and --end E the hands handed to the aggregation are
\* exactly the stored hands whose start date lies in [S, E], both days
\* included, in ascending start-time order.
C18_DateRangeInclusive ==
    (Fetched /\ dateRange # <<>>) =>
        LET S == DateOf(dateRange[1].start)
            E == DateOf(dateRange[1].end)
            wanted == {j \in DOMAIN store :
                          /\ DateLeq(S, DateOf(store[j].hand_start_time))
                          /\ DateLeq(DateOf(store[j].hand_start_time), E)}
        IN  /\ Len(queryRows) = Cardinality(wanted)
            /\ \A j \in wanted :
                   Occurrences(queryRows, store[j])
                       = Cardinality({k \in wanted : store[k] = store[j]})
            /\ \A k \in DOMAIN queryRows :
                   k > 1 => TimeLeq(queryRows[k - 1].hand_start_time,
                                    queryRows[k].hand_start_time)

\* C19: when the chart command ends in a fatal error, no chart file has been
\* written to the output directory by the run.
C19_NoChartFileOnFailure == xpc = "failed" => chartFiles = {}

\* the next line at or after i that starts with 'Poker Hand #', else one past the end
NextStart(lines, i) ==
    IF \E k \in i .. Len(lines) : StartsHand(lines[k])
    THEN CHOOSE k \in i .. Len(lines) :
             StartsHand(lines[k]) /\ \A m \in i .. k - 1 : ~StartsHand(lines[m])
    ELSE Len(lines) + 1

\* C20: the scan of a finite file terminates; parseCompleteHand on a header
\* returns a nextIndex beyond its start: the end of the lines or the next line
\* starting with 'Poker Hand #', also after a SUMMARY section; a line that
\* starts with 'Poker Hand #' without matching the header pattern gives no
\* record and moves the scan by one line; one record per header.
C20_ScanProgressAndTermination ==
    /\ [](\A j \in DOMAIN file[1] :
            LET result == parseCompleteHand(file[1], j)
            IN  IF file[1][j].k = "header"
                THEN /\ result # <<>>
                     /\ result[1].nextIndex > j
                     /\ result[1].nextIndex = NextStart(file[1], j + 1)
                ELSE StartsHand(file[1][j]) => result = <<>>)
    /\ [][pc[1] = "scan" =>
             /\ idx'[1] > idx[1] \/ pc'[1] = "save"
             /\ LET j == NextStart(file[1], idx[1])
                IN  (j <= Len(file[1]) /\ file[1][j].k = "badheader") =>
                        /\ idx'[1] = j + 1
                        /\ hands'[1] = hands[1] /\ skippedHands'[1] = skippedHands[1]]_vars
    /\ [](pc[1] = "save" => Len(hands[1]) + skippedHands[1] = HeaderCount(file[1]))
    /\ <>(pc[1] = "save")

\* a hand ended by its summary section, followed by a second hand: both collected
C20_Witness ==
    /\ pc[1] = "save"
    /\ Len(file[1]) = 4
    /\ file[1][1].k = "header" /\ file[1][2].k = "summary" /\ file[1][3].k = "other"
    /\ file[1][4].k = "header"
    /\ Len(hands[1]) + skippedHands[1] = 2

BettingRounds == {"preflop", "flop", "turn", "river"}
PostsBlind(words) == "posts small blind" \in words \/ "posts big blind" \in words

\* the code a 'Hero:' line stands for, "" when it stands for none
CodeOfWords(words) ==
    IF PostsBlind(words) THEN ""
    ELSE IF "folds" \in words THEN "F"
    ELSE IF "checks" \in words THEN "X"
    ELSE IF "calls" \in words THEN "C"
    ELSE IF "raises" \in words THEN "R"
    ELSE IF "bets" \in words THEN "B"
    ELSE ""

\* the step consumes a line of the hand before its summary
LineStep == pc[1] = "scan" /\ hpc = "scan" /\ hpc' = "scan" /\ idx'[1] = idx[1] + 1
\* the step consumes a line of the summary section
SummaryStep == pc[1] = "scan" /\ hpc = "summary" /\ idx'[1] = idx[1] + 1

\* C21: a 'Hero:' line appends at most one code, to the action list of the
\* current section only: F, X, C by the first of folds, checks, calls in the
\* line, else R when it has raises, else B when it has bets; a blind post and
\* a line with none of the words append nothing; no other line of the hand
\* touches the action lists.
C21_OneCodePerHeroLine ==
    [][/\ LineStep =>
              LET line == file[1][idx[1]]
                  code == IF line.k = "hero" THEN CodeOfWords(line.words) ELSE ""
              IN  /\ \A s \in BettingRounds :
                         hand'.heroActions[s] =
                             IF s = currentSection /\ code # ""
                             THEN Append(hand.heroActions[s], code)
                             ELSE hand.heroActions[s]
                  /\ "raises" \in line.words =>
                         \A s \in BettingRounds :
                             hand'.heroActions[s] # Append(hand.heroActions[s], "B")
       /\ SummaryStep => hand'.heroActions = hand.heroActions]_vars

\* a check and then a line with both bets and raises, on the flop: X then R
C21_Witness ==
    /\ hpc = "scan" /\ idx[1] = 5
    /\ file[1][2].k = "flop"
    /\ file[1][3].words = {"checks"}
    /\ file[1][4].words = {"bets", "raises"}
    /\ hand.heroActions["flop"] = <<"X", "R">>
    /\ hand.heroActions["preflop"] = <<>>

\* the street investments after a line, by the rules of C22; every stored
\* amount is rounded to cents
InvestmentsAfter(inv, line, section) ==
    LET code == IF line.k = "hero" THEN CodeOfWords(line.words) ELSE ""
    IN  IF line.amt = Null THEN inv
        ELSE IF line.k = "hero" /\ PostsBlind(line.words)
             THEN [inv EXCEPT !["preflop"] = Round2(line.amt)]
        ELSE IF code \in {"C", "B"}
             THEN [inv EXCEPT ![section] = Round2(inv[section] + line.amt)]
        ELSE IF code = "R" THEN [inv EXCEPT ![section] = Round2(line.amt)]
        ELSE IF line.k = "uncalled"
             THEN [inv EXCEPT ![section] = Round2(inv[section] - line.amt)]
        ELSE inv

\* C22: a blind post sets the preflop investment to the posted amount; a call
\* or a bet adds its amount to the current section's investment; a raise sets
\* the current section's investment to its 'to' amount; an uncalled bet
\* returned to Hero is subtracted from the current section's investment; no
\* other line, and no line of the summary, changes an investment, and no line
\* changes another street's investment than the one named.
C22_InvestmentRules ==
    [][/\ LineStep =>
              hand'.heroInvestments =
                  InvestmentsAfter(hand.heroInvestments, file[1][idx[1]], currentSection)
       /\ SummaryStep => hand'.heroInvestments = hand.heroInvestments
       /\ (pc[1] = "scan" /\ hpc = "between" /\ hpc' = "scan") =>
              \A s \in BettingRounds : hand'.heroInvestments[s] = 0]_vars

\* small blind 0.05, a raise to 2.00 and 1.50 of it returned: 0.50 preflop
C22_Witness ==
    /\ hpc = "scan" /\ idx[1] = 5
    /\ file[1][2] = Hero({"posts small blind"}, 50)
    /\ file[1][3] = Hero({"raises"}, 2000)
    /\ file[1][4] = Uncalled(1500)
    /\ hand.heroInvestments["preflop"] = 500
    /\ hand.heroInvestments["flop"] = 0

\* the header of the hand last begun and the lines from it to the loop index
HandStart == idx[1] - nLines - 1
OwnLines == SubSeq(file[1], HandStart, idx[1] - 1)
NoSummary(lines) == \A k \in DOMAIN lines : lines[k].k # "summary"
\* the lines of the hand whose header is line j: up to, not including, the
\* next line starting with 'Poker Hand #'
HandBlock(lines, j) == SubSeq(lines, j, NextStart(lines, j + 1) - 1)
\* the last header before the index of the loop, and the lines of its hand
LastHeader ==
    CHOOSE j \in 1 .. idx[1] - 1 :
        /\ file[1][j].k = "header"
        /\ \A m \in j + 1 .. idx[1] - 1 : file[1][m].k # "header"
FinalLines == HandBlock(file[1], LastHeader)
StageOfCards(f) ==
    IF f.riverCard # <<>> THEN "river"
    ELSE IF f.turnCard # <<>> THEN "turn"
    ELSE IF f.flopCards # <<>> THEN "flop"
    ELSE "preflop"

\* C23: a hand with no '*** SUMMARY ***' line before the next hand or the end
\* of the file is finalized without an error: handResult no_showdown_loss,
\* potAmount, rake and jackpot 0, heroProfit minus the rounded total of the
\* investments, finalStage by the community cards seen; it is collected, and
\* when the run returns every collected hand has its row in the table.
C23_HandWithoutSummary ==
    /\ pc[1] # "error" /\ failure[1] = ""
    /\ (hpc = "between" /\ final # <<>> /\ NoSummary(FinalLines)) =>
           /\ final[1].handResult = NO_SHOWDOWN_LOSS
           /\ final[1].potAmount = 0
           /\ final[1].heroRake = 0
           /\ final[1].jackpotAmount = 0
           /\ final[1].heroProfit = 0 - Round2(StreetTotal(hand))
           /\ final[1].finalStage = StageOfCards(final[1])
           /\ hands[1] # <<>> /\ hands[1][Len(hands[1])] = final[1]
    /\ pc[1] = "done" =>
           \A k \in DOMAIN hands[1] :
               (\A j \in 1 .. k - 1 : hands[1][j].handId # hands[1][k].handId)
                   => dbHand(hands[1][k]) \in Rows(store)

\* a hand of a flop and a call of 2.00, ended by the end of the file, is stored
C23_Witness ==
    /\ pc[1] = "done"
    /\ file[1] = <<Header("a"), Street("flop", <<Flop3>>), Hero({"calls"}, 2000)>>
    /\ final # <<>>
    /\ final[1].finalStage = "flop"
    /\ final[1].heroProfit = 0 - 2000
    /\ final[1].handResult = NO_SHOWDOWN_LOSS
    /\ store = <<dbHand(final[1])>>

SeriesKinds == {"allWithRake", "allActual", "showdown", "noShowdown"}

\* what a hand adds to the running sum of a kind, in thousandths of a dollar
Share(kind, h) ==
    IF kind = "allActual" THEN h.hero_profit
    ELSE IF kind = "allWithRake"
         THEN h.hero_profit + (IF h.hero_profit > 0 THEN h.hero_rake ELSE 0)
    ELSE IF kind = "showdown"
         THEN (IF h.hero_hand_result \in Showdowns THEN h.hero_profit ELSE 0)
    ELSE (IF h.hero_hand_result \in Showdowns THEN 0 ELSE h.hero_profit)

RECURSIVE Running(_, _)
\* the running sum of a kind after the first m hands
Running(kind, m) ==
    IF m = 0 THEN 0 ELSE Running(kind, m - 1) + Share(kind, chartHands[m])

RECURSIVE RunningBigBlinds(_)
RunningBigBlinds(m) ==
    IF m = 0 THEN 0 ELSE RunningBigBlinds(m - 1) + chartHands[m].big_blind

\* the per-hand running value of a profit series, in dollars
ProfitValue(kind, m) == Num(Running(kind, m), 1000)

\* 100 x cumulative sum / cumulative big blinds, as a JavaScript number
BB100Ratio(kind, m) ==
    NumMul(NumDiv(Num(Running(kind, m), 1000), Num(RunningBigBlinds(m), 1000)),
           <<100, 1>>)

\* the same, 0 while the cumulative big blinds are not positive
BB100Value(kind, m) ==
    IF RunningBigBlinds(m) > 0 THEN BB100Ratio(kind, m) ELSE Zero

RECURSIVE MeanTotal(_, _, _)
\* the sum of V(k) over the hands a+1 .. b
MeanTotal(V(_), a, b) ==
    IF b <= a THEN Zero ELSE NumAdd(MeanTotal(V, a, b - 1), V(b))

\* to the nearest cent, halves up
Cents(x) == IF x[2] = 0 THEN x ELSE Num((200 * x[1] + x[2]) \div (2 * x[2]), 100)

\* every point of the series is the mean of V over the hands since the point
\* before it, rounded to cents, with the time of its last hand
Smoothed(points, V(_)) ==
    \A j \in DOMAIN points :
        LET b == points[j].handNumber
            a == IF j = 1 THEN 0 ELSE points[j - 1].handNumber
        IN  /\ b - a >= 1 /\ b - a <= Interval
            /\ points[j].value = Cents(NumDiv(MeanTotal(V, a, b), <<b - a, 1>>))
            /\ points[j].timestamp = chartHands[b].hand_start_time

ProfitSeriesSmoothed ==
    profitData # <<>> =>
        /\ Smoothed(profitData.allHandsWithRake, LAMBDA m : ProfitValue("allWithRake", m))
        /\ Smoothed(profitData.allHandsActual, LAMBDA m : ProfitValue("allActual", m))
        /\ Smoothed(profitData.showdownOnly, LAMBDA m : ProfitValue("showdown", m))
        /\ Smoothed(profitData.noShowdownOnly, LAMBDA m : ProfitValue("noShowdown", m))

\* C24: every point is the mean, over the hands since the point before it
\* (at most interval hands), of the per-hand running value, rounded to 2
\* decimals and stamped with the time of the interval's last hand; the running
\* value is the cumulative sum for a profit series and 100 x cumulative sum /
\* cumulative big blinds after every hand for a BB/100 series, 0 while no big
\* blinds have accumulated.
C24_SmoothedMean ==
    /\ ProfitSeriesSmoothed
    /\ bb100Data # <<>> =>
        /\ Smoothed(bb100Data.allHandsWithRakeBB100, LAMBDA m : BB100Value("allWithRake", m))
        /\ Smoothed(bb100Data.allHandsActualBB100, LAMBDA m : BB100Value("allActual", m))
        /\ Smoothed(bb100Data.showdownOnlyBB100, LAMBDA m : BB100Value("showdown", m))
        /\ Smoothed(bb100Data.noShowdownOnlyBB100, LAMBDA m : BB100Value("noShowdown", m))

\* three hands sampled every two, the first at no big blind: the first BB/100
\* point is the mean of 0 and 100 x 1.83 / 0.10, the second 100 x 1.33 / 0.20
C24_Witness ==
    /\ cpc = "done"
    /\ Len(chartHands) = 3 /\ optInterval = 2
    /\ chartHands[1].hero_profit = 330 /\ chartHands[1].big_blind = 0
    /\ chartHands[2].hero_profit = 1500 /\ chartHands[2].big_blind = 100
    /\ chartHands[3].hero_profit = 0 - 500 /\ chartHands[3].big_blind = 100
    /\ Values(profitData.allHandsActual) = <<Num(108, 100), Num(133, 100)>>
    /\ Values(bb100Data.allHandsActualBB100) = <<Num(915, 1), Num(665, 1)>>

RowNames == <<"Overall", "UTG", "HJ", "CO", "BTN", "SB", "BB">>
StageOrder ==
    [stage \in {"preflop", "flop", "turn", "river", "showdown"} |->
        IF stage = "preflop" THEN 0 ELSE IF stage = "flop" THEN 1
        ELSE IF stage = "turn" THEN 2 ELSE IF stage = "river" THEN 3 ELSE 4]
StoredActions(h, street) ==
    IF street = "preflop" THEN h.hero_preflop_actions
    ELSE IF street = "flop" THEN h.hero_flop_actions
    ELSE IF street = "turn" THEN h.hero_turn_actions
    ELSE h.hero_river_actions
InRow(h, name) == name = "Overall" \/ h.hero_position = name

\* the hands a row of a betting street counts
Counted(street, name) ==
    {i \in DOMAIN tableHands :
        /\ InRow(tableHands[i], name)
        /\ StageOrder[tableHands[i].final_stage] >= StageOrder[street]
        /\ StoredActions(tableHands[i], street) # <<>>}

\* those of them whose last action on the street is the code
CountedAs(street, name, code) ==
    {i \in Counted(street, name) :
        LET a == StoredActions(tableHands[i], street) IN a[Len(a)] = code}

OneDecimal(count, total) ==
    IF total = 0 THEN Zero ELSE Num((2000 * count + total) \div (2 * total), 10)

\* C25: in the action table a row of a betting street counts a hand exactly
\* when its final_stage is the street or a later one and its action string of
\* the street is not empty; each counted hand counts once, for the last
\* character of that string; totalHands is the number of counted hands, the
\* five counts add up to it, and each percentage is its count's share.
C25_ActionTableCounts ==
    actionAnalysisData # <<>> =>
        \A street \in BettingStreets :
            /\ Len(actionAnalysisData[1][street].positions) = Len(RowNames)
            /\ \A j \in DOMAIN RowNames :
                   LET row == actionAnalysisData[1][street].positions[j]
                       n(code) == Cardinality(CountedAs(street, RowNames[j], code))
                       total == Cardinality(Counted(street, RowNames[j]))
                   IN  /\ row.position = RowNames[j]
                       /\ row.totalHands = total
                       /\ n("F") + n("X") + n("C") + n("B") + n("R") = total
                       /\ row.foldPct = OneDecimal(n("F"), total)
                       /\ row.checkPct = OneDecimal(n("X"), total)
                       /\ row.callPct = OneDecimal(n("C"), total)
                       /\ row.betPct = OneDecimal(n("B"), total)
                       /\ row.raisePct = OneDecimal(n("R"), total)

\* a hand that ended on the flop after a raise and a fold, and a hand that
\* ended before the flop but has a flop action: the flop rows count the first
C25_Witness ==
    /\ actionAnalysisData # <<>>
    /\ Len(tableHands) = 2
    /\ tableHands[1].final_stage = "flop" /\ tableHands[1].hero_flop_actions = <<"F">>
    /\ tableHands[2].final_stage = "preflop" /\ tableHands[2].hero_flop_actions = <<"F">>
    /\ actionAnalysisData[1]["flop"].positions[1].totalHands = 1
    /\ actionAnalysisData[1]["flop"].positions[1].foldPct = <<100, 1>>
    /\ actionAnalysisData[1]["preflop"].positions[1].totalHands = 2
    /\ actionAnalysisData[1]["preflop"].positions[1].raisePct = <<50, 1>>
    /\ actionAnalysisData[1]["preflop"].positions[1].callPct = <<50, 1>>

\* the hands of a row of the profit/loss table
AtStage(stage, name) ==
    {i \in DOMAIN tableHands :
        tableHands[i].final_stage = stage /\ InRow(tableHands[i], name)}

RECURSIVE MillsOver(_, _)
\* the sum of F(i) over the indices of a set
MillsOver(F(_), set) ==
    IF set = {} THEN 0
    ELSE LET i == CHOOSE i \in set : TRUE IN F(i) + MillsOver(F, set \ {i})

ProfitOf(i) == tableHands[i].hero_profit
BigBlindOf(i) == tableHands[i].big_blind

\* the average big blind of all the hands of the stage, 0.10 when it has none
StageBigBlind(stage) ==
    LET all == AtStage(stage, "Overall")
    IN  IF all = {} THEN Num(1, 10)
        ELSE NumDiv(Num(MillsOver(BigBlindOf, all), 1000), <<Cardinality(all), 1>>)

NumGeq(x, y) == ~IsNaN(x) /\ ~IsNaN(y) /\ (x = y \/ NumGt(x, y))

\* one stage of the profit/loss table is as C26 says
StageRowsRight(stage) ==
    LET table == streetProfitData[1][stage].positions
        avg == StageBigBlind(stage)
    IN  /\ Len(table) = Len(RowNames)
        /\ \A j \in DOMAIN RowNames :
               LET rowHands == AtStage(stage, RowNames[j])
                   won == {i \in rowHands : ProfitOf(i) > 0}
                   lost == {i \in rowHands : ProfitOf(i) <= 0}
                   row == table[j]
               IN  /\ row.position = RowNames[j]
                   /\ row.profitCount = Cardinality(won)
                   /\ row.lossCount = Cardinality(lost)
                   /\ row.profitCount + row.lossCount = Cardinality(rowHands)
                   /\ row.profit = Cents(NumDiv(Num(MillsOver(ProfitOf, won), 1000), avg))
                   /\ row.loss = Cents(NumDiv(Num(MillsOver(ProfitOf, lost), 1000), avg))
                   /\ NumGeq(row.profit, Zero) /\ NumGeq(Zero, row.loss)
                   /\ row.totalPnL = Cents(NumAdd(row.profit, row.loss))
        /\ (\A i \in AtStage(stage, "Overall") :
                \E j \in 2 .. Len(RowNames) : tableHands[i].hero_position = RowNames[j])
           => /\ table[1].profitCount
                    = table[2].profitCount + table[3].profitCount + table[4].profitCount
                      + table[5].profitCount + table[6].profitCount + table[7].profitCount
              /\ table[1].lossCount
                    = table[2].lossCount + table[3].lossCount + table[4].lossCount
                      + table[5].lossCount + table[6].lossCount + table[7].lossCount

\* C26: in the profit/loss table every stage has the rows Overall, UTG, HJ,
\* CO, BTN, SB, BB; a row splits the hands that ended at the stage (in its
\* position) into profit > 0 and profit <= 0, the two counts add up to their
\* number, profit >= 0 >= loss, both sums are divided by the one average big
\* blind of the stage, totalPnL = round2(profit + loss), and the counts of
\* Overall are the sums of the six positions' counts.
C26_ProfitLossTable ==
    streetProfitData # <<>> => \A stage \in StageNames : StageRowsRight(stage)

\* the same for the stages whose average big blind is positive
C26_ProfitLossTableAtPositiveBlind ==
    streetProfitData # <<>> =>
        \A stage \in StageNames :
            NumGt(StageBigBlind(stage), Zero) => StageRowsRight(stage)

RECURSIVE RowProfit(_)
\* the sum of hero_profit over rows
RowProfit(rows) ==
    IF rows = <<>> THEN 0 ELSE rows[1].hero_profit + RowProfit(Tail(rows))

\* C27: when a run of parseHandLogFile returns, the handsParsed it reports is
\* the number of rows the run inserted into the table and the profit it
\* reports is the sum of heroProfit over those rows.
C27_ReportMatchesInserts ==
    \A p \in Procs :
        pc[p] = "done" =>
            /\ handsParsed[p] = Len(inserted[p])
            /\ totalProfit[p] = RowProfit(inserted[p])

\* C28: after every hand, in either calculation, the running showdown and
\* non-showdown sums add up to the running actual sum; with interval 1 (and
\* profits of whole cents) the showdownOnly and noShowdownOnly values of every
\* point add up to its allHandsActual value.
C28_ShowdownPartition ==
    /\ cumulativeStats # <<>> =>
           NumAdd(cumulativeStats.showdown, cumulativeStats.noShowdown)
               = cumulativeStats.allActual
    /\ (profitData # <<>> /\ Interval = 1) =>
           /\ Len(profitData.showdownOnly) = Len(profitData.allHandsActual)
           /\ Len(profitData.noShowdownOnly) = Len(profitData.allHandsActual)
           /\ \A j \in DOMAIN profitData.allHandsActual :
                  NumAdd(profitData.showdownOnly[j].value,
                         profitData.noShowdownOnly[j].value)
                      = profitData.allHandsActual[j].value

\* a showdown win of 1.50 and then 0.50 lost without showdown, every hand a
\* point: 1.50 + (-0.50) = 1.00 at the second
C28_Witness ==
    /\ cpc = "done" /\ Interval = 1
    /\ Len(chartHands) = 2
    /\ chartHands[1].hero_hand_result = SHOWDOWN_WIN
    /\ chartHands[2].hero_hand_result = NO_SHOWDOWN_LOSS
    /\ profitData.showdownOnly[2].value = Num(150, 100)
    /\ profitData.noShowdownOnly[2].value = Num(0 - 50, 100)
    /\ profitData.allHandsActual[2].value = Num(100, 100)

\* the total of a kind over all the hands, in dollars to the cent
TotalOf(kind) == Cents(ProfitValue(kind, Len(chartHands)))

\* C29: the final statistics do not depend on the sampling interval: for
\* every interval totalHands is the number of hands aggregated and
\* actualProfit, profitWithoutRake, showdownProfit and noShowdownProfit are
\* the totals over all the hands, as they are with interval 1.
C29_StatisticsIndependentOfInterval ==
    finalStatistics # <<>> =>
        /\ finalStatistics[1].totalHands = Len(chartHands)
        /\ finalStatistics[1].statistics.actualProfit = TotalOf("allActual")
        /\ finalStatistics[1].statistics.profitWithoutRake = TotalOf("allWithRake")
        /\ finalStatistics[1].statistics.showdownProfit = TotalOf("showdown")
        /\ finalStatistics[1].statistics.noShowdownProfit = TotalOf("noShowdown")

\* the same with every hand a point
C29_StatisticsAtIntervalOne ==
    Interval = 1 => C29_StatisticsIndependentOfInterval

\* C30: the record of a hand depends only on the lines from its header up to,
\* not including, the next line starting with 'Poker Hand #': parseCompleteHand
\* at a header of the file gives the record it gives on the hand's own lines
\* alone, and the record the loops build line by line, from a state that
\* starts fresh at every header, is that record too.
C30_HandIndependence ==
    /\ [](\A j \in DOMAIN file[1] :
             file[1][j].k = "header" =>
                 parseCompleteHand(file[1], j)[1].hand
                     = parseCompleteHand(HandBlock(file[1], j), 1)[1].hand)
    /\ [][(hpc \in {"scan", "summary"} /\ hpc' = "between") =>
              /\ file[1][HandStart].k = "header"
              /\ OwnLines = HandBlock(file[1], HandStart)
              /\ final' = <<parseCompleteHand(OwnLines, 1)[1].hand>>]_vars

\* hand b follows a hand that reached the flop: its call is a preflop call and
\* it has no flop cards
C30_Witness ==
    /\ file[1] = <<Header("a"), Street("flop", <<Flop3>>), Header("b"),
                   Hero({"calls"}, 2000)>>
    /\ hpc = "between"
    /\ final # <<>>
    /\ final[1].handId = "b"
    /\ final[1].heroActions["preflop"] # <<>>
    /\ final[1].heroActions["flop"] = <<>>
    /\ final[1].heroInvestments["preflop"] = 2000
    /\ final[1].flopCards = <<>>
    /\ final[1].finalStage = "preflop"

====
